---- MODULE Spec2Model ----
(***************************************************************************)
(* A model of the fetch pipeline of usac_velodata: the retry/backoff       *)
(* controller (BaseParser._fetch_with_retries), the response cache         *)
(* (_get_from_cache / _save_to_cache), the fetch operations built on them  *)
(* (_fetch_content, _fetch_json, fetch_race_results) and the bulk          *)
(* operations of the client and of the flyer fetcher.                      *)
(*                                                                         *)
(* Strings are modelled by what the code asks of them: a response body is  *)
(* a record of its format and of the marker substrings it contains, a      *)
(* cache key is the sequence of the pieces it is concatenated from.        *)
(* Time is in seconds.                                                     *)
(***************************************************************************)
EXTENDS Integers, Sequences, FiniteSets, TLC

VARIABLES
    max_retries,    \* BaseParser.max_retries
    retry_delay,    \* BaseParser.retry_delay
    cache_enabled,  \* BaseParser.cache_enabled
    now,            \* the wall clock (datetime.now()), in seconds
    ticks,          \* how many times the clock was advanced from outside
    cache,          \* the cache directory: cache path -> file content
    pc,             \* "idle" | "attempting" | "done": where the current call is
    call,           \* the current call: [op, url, params]
    attempt,        \* the loop index of _fetch_with_retries
    requests,       \* transport invocations (session.request) of the current call
    sleeps,         \* the time.sleep durations of the current call, in order
    trace,          \* per attempt of the current call: "fail" | "r429" | "ok"
    lastResp,       \* the transport's last answer in the current call
    blockedAt,      \* the request count at the first response carrying both block markers (0: none)
    retryResult,    \* how _fetch_with_retries ended for the current call
    outcome,        \* how the current fetch operation ended
    prev,           \* summary of the call before the current one
    calls,          \* how many calls were begun
    lastPut,        \* the last direct _save_to_cache call
    lastGet,        \* the last direct _get_from_cache call
    cacheOps,       \* how many direct cache operations were made
    bulk,           \* the running bulk operation (client / flyer batch)
    race,           \* processes sharing one cache file, and the file's content
    parse,          \* the last extraction: its input page and its output
    flyer,          \* the flyer store and the last fetch_flyer call
    limiter,        \* a RateLimiter, its clock and its last acquire
    memo            \* a function under cache_result: its cache file and its last call

cfgVars   == <<max_retries, retry_delay, cache_enabled>>
clockVars == <<now, ticks>>
callVars  == <<pc, call, attempt, requests, sleeps, trace, lastResp, blockedAt,
               retryResult, outcome, prev, calls>>
cacheOpVars == <<lastPut, lastGet, cacheOps>>
extVars == <<race, parse, flyer, limiter, memo>>
vars == <<max_retries, retry_delay, cache_enabled, now, ticks, cache, pc, call,
          attempt, requests, sleeps, trace, lastResp, blockedAt, retryResult,
          outcome, prev, calls, lastPut, lastGet, cacheOps, bulk,
          race, parse, flyer, limiter, memo>>

(***************************************************************************)
(* Bounds of the model                                                     *)
(***************************************************************************)
MaxRetriesBound == 3      \* max_retries ranges over 0..MaxRetriesBound (retry layer alone)
MaxTicks == 1             \* clock advances from outside
MaxCacheOps == 3          \* direct cache operations in one behaviour
MaxDisciplines == 2       \* disciplines on a permit page
MaxCategories == 1        \* race categories of one discipline
MaxListings == 2          \* (year, state) listings a flyer batch walks
NumWriters == 3           \* processes writing the same cache file
MaxCalls == 2             \* consecutive fetch operations of one behaviour

(***************************************************************************)
(* Program constants                                                       *)
(***************************************************************************)
DefaultExpireSeconds == 3600   \* _save_to_cache(..., expire_seconds=3600)
DefaultRetryDelay == 2         \* BaseParser.__init__(retry_delay=2.0)
DefaultMaxRetries == 3         \* BaseParser.__init__(max_retries=3)

None == [kind |-> "none"]

(***************************************************************************)
(* Race-results pages, as BeautifulSoup selects them: the title element,   *)
(* the texts of the div.tablecell.header cells, the div.tablerow rows      *)
(* (their classes, their div.tablecell.results cells) and the              *)
(* table.results-table (thead th texts, tbody tr rows of td texts).        *)
(* A cell is its stripped text and the text of its first link.             *)
(***************************************************************************)
NoLink == "<no link>"
Cell(text, link) == [text |-> text, link |-> link]
TextCell(text) == Cell(text, NoLink)
GridRow(classes, cells) == [classes |-> classes, cells |-> cells]
NoTable == [present |-> FALSE, headers |-> <<>>, rows |-> <<>>]
ResultsTable(headers, rows) == [present |-> TRUE, headers |-> headers, rows |-> rows]
RacePage(title, header_cells, grid, table) ==
    [title |-> title, header_cells |-> header_cells, grid |-> grid, table |-> table]

\* the rows of tests/test_race_results_parser.py, and variations
JohnDoeRow ==
    GridRow({"tablerow", "odd"},
            << TextCell(""), TextCell("1"), TextCell(""), TextCell(""),
               Cell("John Doe", "John Doe"), TextCell("Boulder, CO"), TextCell("01:01:07"),
               TextCell(""), TextCell("12345"), TextCell("101"), TextCell("Team Alpha") >>)
JaneSmithRow ==
    GridRow({"tablerow", "even"},
            << TextCell(""), TextCell("DNF"), TextCell(""), TextCell(""),
               Cell("Jane Smith (CO)", "Jane Smith"), TextCell("Denver"), TextCell(""),
               TextCell(""), TextCell("23456"), TextCell("102"), TextCell("") >>)
ShortRow ==
    GridRow({"tablerow", "odd"},
            << TextCell(""), TextCell("3"), TextCell(""), TextCell(""), TextCell("Sam Short") >>)
HeaderRow == GridRow({"tablerow"}, <<>>)
GridHeaders == <<"Place", "Points", "Name", "City, State", "Time", "USAC #", "Bib", "Team">>
TableOfTwo ==
    ResultsTable(<<"Place", "Name", "Team">>,
                 << <<"1", "John Doe", "Team Alpha">>, <<"2", "Jane Smith">> >>)
RaceTitle == "XCU Men 1:55 Category A"

EmptyPage == RacePage("", <<>>, <<>>, NoTable)
GridPage == RacePage(RaceTitle, GridHeaders, <<HeaderRow, JohnDoeRow, JaneSmithRow>>, NoTable)
RacePages ==
    { EmptyPage, GridPage,
      RacePage("", <<>>, <<JohnDoeRow, JaneSmithRow>>, NoTable),
      RacePage("", GridHeaders, <<HeaderRow, ShortRow, JohnDoeRow>>, NoTable),
      RacePage(RaceTitle, <<>>, <<>>, TableOfTwo),
      RacePage("", GridHeaders, <<HeaderRow, JohnDoeRow>>, TableOfTwo),
      RacePage("", GridHeaders, <<HeaderRow>>, TableOfTwo),
      RacePage("", <<>>, <<JohnDoeRow>>, TableOfTwo) }

\* BaseParser._extract_text of a selected element: get_text(strip=True), cut
\* at the first "<" the text contains
before_lt(text) ==
    CASE text = "<1" -> ""
      [] text = "Elite <U23" -> "Elite "
      [] OTHER -> text
extract_text(cell) == before_lt(cell.text)

\* fetch_race_results, "Process the div-based table format": the record of
\* one row, its fields taken by position as far as the row has cells
grid_rider(row) ==
    LET cells == row.cells
        n == Len(cells)
        keys == (IF n >= 2 THEN {"place"} ELSE {}) \cup (IF n >= 5 THEN {"name"} ELSE {})
                \cup (IF n >= 6 THEN {"location"} ELSE {}) \cup (IF n >= 7 THEN {"time"} ELSE {})
                \cup (IF n >= 9 THEN {"license"} ELSE {}) \cup (IF n >= 10 THEN {"bib"} ELSE {})
                \cup (IF n >= 11 THEN {"team"} ELSE {})
    IN [k \in keys |->
           CASE k = "place" -> extract_text(cells[2])
             [] k = "name" -> IF cells[5].link # NoLink THEN cells[5].link
                              ELSE extract_text(cells[5])
             [] k = "location" -> extract_text(cells[6])
             [] k = "time" -> extract_text(cells[7])
             [] k = "license" -> extract_text(cells[9])
             [] k = "bib" -> extract_text(cells[10])
             [] k = "team" -> extract_text(cells[11])]

is_rider_row(row) ==
    /\ ("odd" \in row.classes \/ "even" \in row.classes)
    /\ Len(row.cells) >= 2               \* `if rider_data:`

grid_riders(page) ==
    IF page.header_cells = <<>> THEN <<>>       \* `if header_cells:`
    ELSE LET rows == SelectSeq(page.grid, is_rider_row)
         IN [i \in 1..Len(rows) |-> grid_rider(rows[i])]

\* fetch_race_results, the "more traditional table format": each td under
\* the text of the th over it
table_rider(headers, tds) ==
    LET n == IF Len(tds) < Len(headers) THEN Len(tds) ELSE Len(headers)
    IN [h \in {headers[i] : i \in 1..n} |->
           tds[CHOOSE i \in 1..n : headers[i] = h /\ \A j \in (i + 1)..n : headers[j] # h]]

has_mapped_cell(tds) == Len(tds) >= 1

table_riders(page) ==
    IF ~page.table.present \/ page.table.headers = <<>> THEN <<>>
    ELSE LET rows == SelectSeq(page.table.rows, has_mapped_cell)
         IN [i \in 1..Len(rows) |-> table_rider(page.table.headers, rows[i])]

\* Faulty variant: the table layout is tried whenever the grid gave no rider
race_riders_fallback_on_no_rider(page) ==
    IF grid_riders(page) = <<>> THEN table_riders(page) ELSE grid_riders(page)

\* fetch_race_results: `table_rows = soup.select("div.tablerow")`, and the
\* table only `if not table_rows`
race_riders(page) ==
    IF page.grid = <<>> THEN table_riders(page) ELSE grid_riders(page)

(***************************************************************************)
(* Transport answers.  A body is [fmt, env, marks, html_marks, page]: fmt  *)
(* "json" when the text starts with "{" and decodes as JSON; env the key   *)
(* of a JSON envelope under which the HTML comes ("none": no envelope);    *)
(* marks the marker substrings the text contains as received, html_marks   *)
(* those of the HTML after unwrapping; page what the HTML holds.           *)
(***************************************************************************)
Body(fmt, env, marks, html_marks, page) ==
    [fmt |-> fmt, env |-> env, marks |-> marks, html_marks |-> html_marks, page |-> page]
InvalidMarker == "Invalid user access"
MaliciousMarker == "malicious"
UnauthorizedMarker == "Unauthorized access!"

PageBody    == Body("html", "none", {}, {}, GridPage)
BlockedBody == Body("html", "none", {InvalidMarker, MaliciousMarker},
                    {InvalidMarker, MaliciousMarker}, EmptyPage)
HalfBlockedBody == Body("html", "none", {InvalidMarker}, {InvalidMarker}, EmptyPage)
UnauthBody  == Body("html", "none", {UnauthorizedMarker}, {UnauthorizedMarker}, EmptyPage)
JsonBody    == Body("json", "message", {}, {}, GridPage)

NoHeader == "<absent>"
\* Retry-After header values: delay-seconds or an HTTP-date
RetryAfterValues == {"3", "Wed, 21 Oct 2015 07:28:00 GMT"}

TransportError == [kind |-> "exc"]   \* session.request raises a RequestException
Response(status, retry_after, body) ==
    [kind |-> "resp", status |-> status, retry_after |-> retry_after, body |-> body]

\* str.isdigit() and float() on the header values of the model
isdigit(s) == s \in {"0", "1", "2", "3", "4", "5", "6", "7", "8", "9"}
float(s) == CASE s = "0" -> 0 [] s = "1" -> 1 [] s = "2" -> 2 [] s = "3" -> 3
              [] s = "4" -> 4 [] s = "5" -> 5 [] s = "6" -> 6 [] s = "7" -> 7
              [] s = "8" -> 8 [] s = "9" -> 9

RECURSIVE Pow2(_)
Pow2(n) == IF n = 0 THEN 1 ELSE 2 * Pow2(n - 1)

RECURSIVE SumSeq(_)
SumSeq(s) == IF s = <<>> THEN 0 ELSE Head(s) + SumSeq(Tail(s))

\* requests.Response.raise_for_status: HTTPError for 4xx and 5xx
raise_for_status(r) == r.status >= 400 /\ r.status < 600

(***************************************************************************)
(* BaseParser._fetch_with_retries: one iteration of the loop               *)
(*     for attempt in range(self.max_retries)                              *)
(* given the transport's answer r.  next is "return" (the response is      *)
(* returned), "raise" (exc leaves the function), or "continue" (the loop   *)
(* goes to the next index); sleep holds the time.sleep of the iteration.   *)
(***************************************************************************)
except_RequestException(att) ==
    IF att < max_retries - 1
    THEN [next |-> "continue", exc |-> "", sleep |-> <<retry_delay * Pow2(att)>>]
    ELSE [next |-> "raise", exc |-> "NetworkError", sleep |-> <<>>]

\* Faulty variant of the 429 branch: the Retry-After wait is followed by
\* the default wait as well
rate_limited_sleeps_twice(r) ==
    IF r.retry_after = NoHeader
    THEN [next |-> "raise", exc |-> "AttributeError", sleep |-> <<>>]
    ELSE [next |-> "continue", exc |-> "",
          sleep |-> << IF isdigit(r.retry_after) THEN float(r.retry_after)
                       ELSE retry_delay * 2,
                       retry_delay * 2 >>]

rate_limited(r) ==
    \* retry_after = response.headers.get("Retry-After", self.retry_delay * 2)
    \* retry_after = float(retry_after) if retry_after.isdigit() else ...
    IF r.retry_after = NoHeader
    THEN \* the default is a float, and float has no isdigit
         [next |-> "raise", exc |-> "AttributeError", sleep |-> <<>>]
    ELSE [next |-> "continue", exc |-> "",
          sleep |-> << IF isdigit(r.retry_after) THEN float(r.retry_after)
                       ELSE retry_delay * 2 >>]

fetch_with_retries_iteration(r, att) ==
    IF r.kind = "exc" THEN except_RequestException(att)
    ELSE IF r.status = 429 THEN rate_limited(r)
    ELSE IF raise_for_status(r) THEN except_RequestException(att)
    ELSE [next |-> "return", exc |-> "", sleep |-> <<>>]

\* How _fetch_with_retries ends after the iteration at index att, or
\* "pending" when the loop goes on.
fetch_with_retries_result(r, att) ==
    LET it == fetch_with_retries_iteration(r, att) IN
    CASE it.next = "return" -> [kind |-> "response", resp |-> r]
      [] it.next = "raise" -> [kind |-> "raise", exc |-> it.exc]
      [] it.next = "continue" /\ att + 1 < max_retries -> [kind |-> "pending"]
      [] OTHER -> None     \* the loop ran out: the function falls off its end

TraceTag(r) ==
    IF r.kind = "exc" THEN "fail"
    ELSE IF r.status = 429 THEN "r429"
    ELSE IF raise_for_status(r) THEN "fail"
    ELSE "ok"

(***************************************************************************)
(* The response cache: one JSON file per key                               *)
(***************************************************************************)
ContentUrl == "https://legacy.usacycling.org/results/browse.php"
RaceIds == {"1337864"}

\* BaseParser._build_race_results_url
build_race_results_url(race_id) ==
    <<"https://legacy.usacycling.org/results/index.php?ajax=1&act=loadresults&race_id=", race_id>>

\* Query parameters: a dict, i.e. (key, value) pairs in insertion order
ParamA == <<"a", "1">>
ParamB == <<"b", "2">>
ParamDicts == { <<>>, <<ParamA, ParamB>>, <<ParamB, ParamA>> }

\* "&".join(f"{k}={v}" for k, v in params.items())
RECURSIVE join_params(_)
join_params(params) ==
    IF Len(params) = 1 THEN <<Head(params)[1], "=", Head(params)[2]>>
    ELSE <<Head(params)[1], "=", Head(params)[2], "&">> \o join_params(Tail(params))

\* The cache key computed at the head of _fetch_content and _fetch_json
cache_key(url, params) ==
    IF params = <<>> THEN <<url>> ELSE <<url, "?">> \o join_params(params)

\* BaseParser._get_cache_path: the percent-encoded key plus ".json"
get_cache_path(key) == <<"quote">> \o key \o <<".json">>

\* BaseParser._build_load_info_url
build_load_info_url(info_id, label) ==
    <<"https://legacy.usacycling.org/results/index.php?ajax=1&act=infoid&info_id=", info_id,
      "&label=", label>>
LoadInfoIds == {"132893", ""}

AllKeys == { cache_key(ContentUrl, p) : p \in ParamDicts }
           \cup { build_race_results_url(id) : id \in RaceIds }
           \cup { build_load_info_url(id, "") : id \in LoadInfoIds }
CachePaths == { get_cache_path(k) : k \in AllKeys }

\* Timestamp encodings found in a cache file
timestamp(t) == [enc |-> "num", ok |-> TRUE, tz |-> FALSE, v |-> t]   \* datetime.timestamp(): epoch float
isoformat(t) == [enc |-> "str", ok |-> TRUE, tz |-> FALSE, v |-> t]   \* datetime.isoformat(): naive ISO-8601
AwareIso(t)  == [enc |-> "str", ok |-> TRUE, tz |-> TRUE, v |-> t]    \* ISO-8601 with a UTC offset
BadString    == [enc |-> "str", ok |-> FALSE, tz |-> FALSE, v |-> 0]  \* a string that is no ISO-8601 date
JsonNull     == [enc |-> "null", ok |-> FALSE, tz |-> FALSE, v |-> 0] \* "expires_at": null

NoFile  == [t |-> "nofile"]
Corrupt == [t |-> "corrupt"]     \* a file json.load cannot decode

CacheFile(url, cached_at, expires_at, response) ==
    [t |-> "entry", url |-> url, cached_at |-> cached_at,
     expires_at |-> expires_at, response |-> response]

Entry(data) == [kind |-> "entry", data |-> data]

\* Faulty variants of _get_from_cache.  An entry is dropped already at its
\* expiry instant:
get_from_cache_expired_at_instant(key) ==
    IF ~cache_enabled THEN None
    ELSE LET f == cache[get_cache_path(key)] IN
         IF f.t # "entry" THEN None
         ELSE LET e == f.expires_at IN
              IF ~e.ok \/ e.tz THEN None
              ELSE IF now >= e.v THEN None ELSE Entry(f)

\* A string expires_at is taken as "no expiry":
get_from_cache_string_never_expires(key) ==
    IF ~cache_enabled THEN None
    ELSE LET f == cache[get_cache_path(key)] IN
         IF f.t # "entry" THEN None
         ELSE LET e == f.expires_at IN
              IF e.enc = "str" THEN Entry(f)
              ELSE IF e.enc = "null" THEN None
              ELSE IF now > e.v THEN None ELSE Entry(f)

\* BaseParser._get_from_cache of a parser whose cache is enabled: None, or
\* the decoded file
read_cache_file(key) ==
    LET f == cache[get_cache_path(key)] IN
    IF f.t = "nofile" THEN None
    ELSE IF f.t = "corrupt" THEN None               \* json.JSONDecodeError
    ELSE LET e == f.expires_at IN
         IF e.enc = "str"
         THEN IF ~e.ok THEN None                      \* fromisoformat: ValueError
              ELSE IF e.tz THEN None                  \* naive > aware: TypeError
              ELSE IF now > e.v THEN None ELSE Entry(f)
         ELSE IF e.enc = "null" THEN None             \* float(None): TypeError
         ELSE IF now > e.v THEN None ELSE Entry(f)    \* datetime.fromtimestamp

\* BaseParser._get_from_cache: None, or the decoded file
get_from_cache(key) ==
    IF ~cache_enabled THEN None ELSE read_cache_file(key)

WriteOutcomes == {"ok", "open_fails", "dump_fails"}

\* Faulty variant of _save_to_cache: expires_at is the TTL alone, not
\* now + TTL
save_to_cache_ttl_as_expiry(key, data, expire_seconds, w) ==
    IF ~cache_enabled \/ w = "open_fails" THEN cache
    ELSE [cache EXCEPT ![get_cache_path(key)] =
             IF w = "dump_fails" THEN Corrupt
             ELSE CacheFile(key, isoformat(now), timestamp(expire_seconds), data)]

\* BaseParser._save_to_cache: the cache directory after the call.  w is what
\* the file system does: the write works, open() raises (nothing is
\* written), or json.dump raises after open() truncated the file.
save_to_cache(key, data, expire_seconds, w) ==
    IF ~cache_enabled THEN cache
    ELSE LET path == get_cache_path(key) IN
         CASE w = "ok" ->
                [cache EXCEPT ![path] =
                    CacheFile(key, isoformat(now), timestamp(now + expire_seconds), data)]
           [] w = "open_fails" -> cache
           [] w = "dump_fails" -> [cache EXCEPT ![path] = Corrupt]

(***************************************************************************)
(* The fetch operations, after _fetch_with_retries has ended with rr       *)
(***************************************************************************)
is_blocked(body) == InvalidMarker \in body.marks /\ MaliciousMarker \in body.marks

Text(body) == [type |-> "text", body |-> body]          \* response.text
Json(body) == [type |-> "json", body |-> body]          \* response.json()
EmptyResult(race_id) == [type |-> "result", id |-> race_id, name |-> "", riders |-> <<>>]
\* the result fetch_race_results extracts from a results page
ParsedResult(race_id, body) ==
    [type |-> "result", id |-> race_id, name |-> body.page.title,
     riders |-> race_riders(body.page)]

\* How an operation ended: what it returned or raised, whether it was served
\* from the cache, whether it wrote its cache entry, and when it ended
Raised(exc) ==
    [kind |-> "raise", exc |-> exc, value |-> None, hit |-> FALSE, stored |-> FALSE, at |-> now]
Returned(value, stored) ==
    [kind |-> "return", exc |-> "", value |-> value, hit |-> FALSE, stored |-> stored, at |-> now]
CacheHit(value) ==
    [kind |-> "return", exc |-> "", value |-> value, hit |-> TRUE, stored |-> FALSE, at |-> now]
Pending ==
    [kind |-> "pending", exc |-> "", value |-> None, hit |-> FALSE, stored |-> FALSE, at |-> 0]

Stored(w) == cache_enabled /\ w = "ok"

\* _fetch_with_retries called directly
fetch_with_retries_end(rr) ==
    [out |-> CASE rr.kind = "raise" -> Raised(rr.exc)
               [] rr.kind = "none" -> Returned(None, FALSE)
               [] OTHER -> Returned([type |-> "response", resp |-> rr.resp], FALSE),
     cache |-> cache]

\* Faulty variant of _fetch_content: a failed cache write escapes
\* _save_to_cache and is wrapped like any other exception of the try block
fetch_content_end_write_failure_raises(c, rr, w) ==
    IF rr.kind = "response" /\ ~is_blocked(rr.resp.body) /\ cache_enabled /\ w # "ok"
    THEN [out |-> Raised("NetworkError"), cache |-> cache]
    ELSE IF rr.kind = "response" /\ ~is_blocked(rr.resp.body)
    THEN [out |-> Returned(Text(rr.resp.body), Stored(w)),
          cache |-> save_to_cache(cache_key(c.url, c.params), Text(rr.resp.body),
                                  DefaultExpireSeconds, w)]
    ELSE [out |-> Raised(IF rr.kind = "response" THEN "IPBlockedError" ELSE "NetworkError"),
          cache |-> cache]

\* BaseParser._fetch_content, from "Make the request" on
fetch_content_end(c, rr, w) ==
    LET key == cache_key(c.url, c.params) IN
    CASE rr.kind = "raise" -> [out |-> Raised("NetworkError"), cache |-> cache]
      [] rr.kind = "none" ->   \* None.text: AttributeError, wrapped
            [out |-> Raised("NetworkError"), cache |-> cache]
      [] OTHER ->
            IF is_blocked(rr.resp.body)
            THEN [out |-> Raised("IPBlockedError"), cache |-> cache]
            ELSE [out |-> Returned(Text(rr.resp.body), Stored(w)),
                  cache |-> save_to_cache(key, Text(rr.resp.body), DefaultExpireSeconds, w)]

\* BaseParser._fetch_json, from "Make the request" on
fetch_json_end(c, rr, w) ==
    LET key == cache_key(c.url, c.params) IN
    CASE rr.kind = "raise" -> [out |-> Raised("NetworkError"), cache |-> cache]
      [] rr.kind = "none" -> [out |-> Raised("NetworkError"), cache |-> cache]
      [] OTHER ->
            IF is_blocked(rr.resp.body)
            THEN [out |-> Raised("IPBlockedError"), cache |-> cache]
            ELSE IF rr.resp.body.fmt = "json"
            THEN [out |-> Returned(Json(rr.resp.body), Stored(w)),
                  cache |-> save_to_cache(key, Json(rr.resp.body), DefaultExpireSeconds, w)]
            ELSE [out |-> Raised("ParseError"), cache |-> cache]   \* response.json(): ValueError

\* Faulty variant: the "Unauthorized access!" text is parsed like any page
fetch_race_results_end_unauthorized_parsed(c, rr, w) ==
    LET url == build_race_results_url(c.race_id) IN
    CASE rr.kind = "raise" -> [out |-> Returned(EmptyResult(c.race_id), FALSE), cache |-> cache]
      [] rr.kind = "none" -> [out |-> Returned(EmptyResult(c.race_id), FALSE), cache |-> cache]
      [] OTHER ->
            IF is_blocked(rr.resp.body)
            THEN [out |-> Raised("IPBlockedError"), cache |-> cache]
            ELSE [out |-> Returned(ParsedResult(c.race_id, rr.resp.body), Stored(w)),
                  cache |-> save_to_cache(url, ParsedResult(c.race_id, rr.resp.body),
                                          DefaultExpireSeconds, w)]

\* BaseParser.fetch_race_results, from the try block on
fetch_race_results_end(c, rr, w) ==
    LET url == build_race_results_url(c.race_id) IN
    CASE rr.kind = "raise" ->   \* "Return minimal result on error"
            [out |-> Returned(EmptyResult(c.race_id), FALSE), cache |-> cache]
      [] rr.kind = "none" ->    \* None.text: AttributeError, same handler
            [out |-> Returned(EmptyResult(c.race_id), FALSE), cache |-> cache]
      [] OTHER ->
            IF is_blocked(rr.resp.body)
            THEN [out |-> Raised("IPBlockedError"), cache |-> cache]
            ELSE IF UnauthorizedMarker \in rr.resp.body.html_marks
            THEN [out |-> Returned(EmptyResult(c.race_id), FALSE), cache |-> cache]
            ELSE [out |-> Returned(ParsedResult(c.race_id, rr.resp.body), Stored(w)),
                  cache |-> save_to_cache(url, ParsedResult(c.race_id, rr.resp.body),
                                          DefaultExpireSeconds, w)]

OperationEnd(c, rr, w) ==
    CASE c.op = "fetch_with_retries" -> fetch_with_retries_end(rr)
      [] c.op = "fetch_content" -> fetch_content_end(c, rr, w)
      [] c.op = "fetch_json" -> fetch_json_end(c, rr, w)
      [] c.op = "fetch_race_results" -> fetch_race_results_end(c, rr, w)

FetchOps == {"fetch_content", "fetch_json", "fetch_race_results"}

KeyOf(c) == IF c.op = "fetch_race_results" THEN build_race_results_url(c.race_id)
            ELSE cache_key(c.url, c.params)

(***************************************************************************)
(* State after construction.  Every specification below starts a parser    *)
(* with an empty cache directory and no call in progress.                  *)
(***************************************************************************)
NoCall == [op |-> "none", url |-> "", params |-> <<>>, race_id |-> "", at |-> 0]
NoResp == [kind |-> "noresp"]
NoPrev == [op |-> "none", key |-> <<>>, url |-> "", params |-> <<>>, requests |-> 0,
           value |-> None, at |-> 0]
NoBulk == [op |-> "none", pc |-> "none", include_results |-> FALSE, nd |-> 0, i |-> 0,
           categories |-> 0, races |-> 0, permits |-> 0, requests |-> 0, blockedAt |-> 0,
           logged |-> 0, result |-> ""]

NoRace == [op |-> "none"]
NoParse == [op |-> "none"]
\* a FlyerFetcher with an empty storage directory that was never called
NoFlyer == [op |-> "none", storage |-> {}, permit |-> "", tried |-> FALSE, answer |-> None,
            requests |-> 0, saved |-> FALSE, result |-> None, calls |-> 0]
NoLimiter == [op |-> "none"]
NoMemo == [op |-> "none"]

Quiescent ==
    /\ now = 0 /\ ticks = 0
    /\ cache = [p \in CachePaths |-> NoFile]
    /\ pc = "idle" /\ call = NoCall /\ attempt = 0 /\ requests = 0
    /\ sleeps = <<>> /\ trace = <<>> /\ lastResp = NoResp /\ blockedAt = 0
    /\ retryResult = [kind |-> "pending"] /\ outcome = Pending /\ prev = NoPrev /\ calls = 0
    /\ lastPut = None /\ lastGet = None /\ cacheOps = 0
    /\ bulk = NoBulk
    /\ race = NoRace /\ parse = NoParse /\ flyer = NoFlyer /\ limiter = NoLimiter
    /\ memo = NoMemo

\* What is remembered of the call before the current one when that call
\* wrote its cache entry: its key, its requests, its payload, when it ended
Summary == [op |-> call.op, key |-> KeyOf(call), url |-> call.url, params |-> call.params,
            requests |-> requests, value |-> outcome.value, at |-> outcome.at]

\* A new call begins: the per-call observations start afresh
Begin(c, limit) ==
    /\ pc \in {"idle", "done"}
    /\ calls < limit
    /\ calls' = calls + 1
    /\ call' = c
    /\ prev' = IF pc = "done" /\ outcome.stored THEN Summary ELSE NoPrev
    /\ requests' = 0 /\ sleeps' = <<>> /\ trace' = <<>>
    /\ lastResp' = NoResp /\ blockedAt' = 0
    /\ attempt' = 0

\* The call reaches `for attempt in range(self.max_retries)`: with
\* max_retries = 0 the loop body never runs and the operation ends at once.
EnterLoop(c) ==
    IF max_retries > 0
    THEN /\ pc' = "attempting"
         /\ retryResult' = [kind |-> "pending"]
         /\ outcome' = Pending
         /\ UNCHANGED cache
    ELSE LET end == OperationEnd(c, None, "ok") IN
         /\ pc' = "done"
         /\ retryResult' = None
         /\ outcome' = end.out
         /\ cache' = end.cache

\* The head of _fetch_content, _fetch_json and fetch_race_results:
\* "Check cache first", then the request
LookupThenFetch(c) ==
    LET cached == IF cache_enabled THEN get_from_cache(KeyOf(c)) ELSE None IN
    IF cached.kind = "entry"
    THEN /\ pc' = "done"
         /\ retryResult' = [kind |-> "pending"]
         /\ outcome' = CacheHit(cached.data.response)
         /\ UNCHANGED cache
    ELSE EnterLoop(c)

(***************************************************************************)
(* Operations                                                              *)
(***************************************************************************)
\* A caller invokes BaseParser._fetch_with_retries(url)
fetch_with_retries ==
    LET c == [op |-> "fetch_with_retries", url |-> ContentUrl, params |-> <<>>,
              race_id |-> "", at |-> now] IN
    /\ Begin(c, 1)
    /\ EnterLoop(c)
    /\ UNCHANGED <<cfgVars, clockVars, cacheOpVars, bulk, extVars>>

\* A caller invokes BaseParser._fetch_content(url, params)
fetch_content(params, limit) ==
    LET c == [op |-> "fetch_content", url |-> ContentUrl, params |-> params,
              race_id |-> "", at |-> now] IN
    /\ Begin(c, limit)
    /\ LookupThenFetch(c)
    /\ UNCHANGED <<cfgVars, clockVars, cacheOpVars, bulk, extVars>>

\* A caller invokes BaseParser._fetch_json(url, params)
fetch_json(params, limit) ==
    LET c == [op |-> "fetch_json", url |-> ContentUrl, params |-> params,
              race_id |-> "", at |-> now] IN
    /\ Begin(c, limit)
    /\ LookupThenFetch(c)
    /\ UNCHANGED <<cfgVars, clockVars, cacheOpVars, bulk, extVars>>

\* A caller invokes BaseParser.fetch_race_results(race_id)
fetch_race_results(race_id, limit) ==
    LET c == [op |-> "fetch_race_results", url |-> build_race_results_url(race_id),
              params |-> <<>>, race_id |-> race_id, at |-> now] IN
    /\ Begin(c, limit)
    /\ LookupThenFetch(c)
    /\ UNCHANGED <<cfgVars, clockVars, cacheOpVars, bulk, extVars>>

\* One iteration of the loop in _fetch_with_retries: self.session.request
\* answers r, and the call runs on to its next request or to its end
\* (w: what the file system does if the operation writes its cache entry).
session_request(r, w) ==
    /\ pc = "attempting"
    /\ LET it == fetch_with_retries_iteration(r, attempt)
           rr == fetch_with_retries_result(r, attempt)
       IN
       /\ requests' = requests + 1
       /\ sleeps' = sleeps \o it.sleep
       /\ now' = now + SumSeq(it.sleep)
       /\ trace' = Append(trace, TraceTag(r))
       /\ lastResp' = r
       /\ blockedAt' = IF blockedAt = 0 /\ r.kind = "resp" /\ is_blocked(r.body)
                       THEN requests + 1 ELSE blockedAt
       /\ retryResult' = rr
       /\ IF rr.kind = "pending"
          THEN /\ attempt' = attempt + 1
               /\ UNCHANGED <<pc, outcome, cache>>
          ELSE LET end == OperationEnd(call, rr, w) IN
               /\ pc' = "done"
               /\ outcome' = end.out
               /\ cache' = end.cache
               /\ UNCHANGED attempt
    /\ UNCHANGED <<cfgVars, ticks, call, prev, calls, cacheOpVars, bulk, extVars>>

\* Time passes between two calls
Tick(d) ==
    /\ pc = "done"
    /\ ticks < MaxTicks
    /\ ticks' = ticks + 1
    /\ now' = now + d
    /\ UNCHANGED <<cfgVars, cache, callVars, cacheOpVars, bulk, extVars>>

TickSteps == {DefaultExpireSeconds, DefaultExpireSeconds + 1}

(***************************************************************************)
(* SpecRetry: _fetch_with_retries on its own, under every transport        *)
(* behaviour                                                               *)
(***************************************************************************)
RetryAnswers ==
    {TransportError}
    \cup { Response(200, NoHeader, b) : b \in {PageBody, BlockedBody} }
    \cup { Response(404, NoHeader, PageBody) }
    \cup { Response(429, h, PageBody) : h \in RetryAfterValues \cup {NoHeader} }

RetryDelays == {1, DefaultRetryDelay}

InitRetry ==
    /\ max_retries \in 0..MaxRetriesBound
    /\ retry_delay \in RetryDelays
    /\ cache_enabled = TRUE
    /\ Quiescent

NextRetry ==
    \/ fetch_with_retries
    \/ \E r \in RetryAnswers : session_request(r, "ok")

SpecRetry == InitRetry /\ [][NextRetry]_vars

\* Every attempt ends: session.request runs with timeout=30 and every
\* time.sleep is finite, so a call that can take its next step takes it
SpecRetryFair ==
    InitRetry /\ [][NextRetry]_vars /\ WF_vars(\E r \in RetryAnswers : session_request(r, "ok"))

(***************************************************************************)
(* SpecFetch: one fetch operation under every transport and file-system    *)
(* behaviour                                                               *)
(***************************************************************************)
FetchAnswers ==
    {TransportError}
    \cup { Response(200, NoHeader, b) :
             b \in {PageBody, BlockedBody, HalfBlockedBody, UnauthBody, JsonBody} }
    \cup { Response(s, NoHeader, BlockedBody) : s \in {403, 503} }
    \cup { Response(429, h, b) : h \in {"3", NoHeader}, b \in {PageBody, BlockedBody} }

InitFetch ==
    /\ max_retries \in 0..MaxRetriesBound
    /\ retry_delay = DefaultRetryDelay
    /\ cache_enabled \in BOOLEAN
    /\ Quiescent

NextFetch ==
    \/ \E p \in ParamDicts : fetch_content(p, 1)
    \/ \E p \in ParamDicts : fetch_json(p, 1)
    \/ \E id \in RaceIds : fetch_race_results(id, 1)
    \/ \E r \in FetchAnswers, w \in WriteOutcomes : session_request(r, w)

SpecFetch == InitFetch /\ [][NextFetch]_vars

(***************************************************************************)
(* Spec: consecutive fetch operations over the response cache              *)
(***************************************************************************)
Answers ==
    {TransportError}
    \cup { Response(200, NoHeader, b) : b \in {PageBody, UnauthBody, JsonBody} }

RetryChoices == {1, 2}

Init ==
    /\ max_retries \in RetryChoices
    /\ retry_delay = DefaultRetryDelay
    /\ cache_enabled \in BOOLEAN
    /\ Quiescent

Next ==
    \/ \E p \in ParamDicts : fetch_content(p, MaxCalls)
    \/ fetch_json(<<>>, MaxCalls)
    \/ \E id \in RaceIds : fetch_race_results(id, MaxCalls)
    \/ \E r \in Answers, w \in {"ok", "open_fails"} : session_request(r, w)
    \/ \E d \in TickSteps : Tick(d)

Spec == Init /\ [][Next]_vars

(***************************************************************************)
(* SpecCache: the response cache driven directly, with files left by       *)
(* earlier versions (ISO-8601 expires_at) and out-of-band removal          *)
(***************************************************************************)
CacheOpKeys == { cache_key(ContentUrl, <<>>) } \cup { build_race_results_url(id) : id \in RaceIds }
Payloads == { Text(PageBody), Json(JsonBody) }
Ttls == {1, DefaultExpireSeconds}
CacheTickSteps == {1, 2, DefaultExpireSeconds, DefaultExpireSeconds + 1}
LegacyExpiries == { isoformat(1), isoformat(DefaultExpireSeconds),
                    AwareIso(DefaultExpireSeconds), BadString, JsonNull }

CacheOp ==
    /\ cacheOps < MaxCacheOps
    /\ cacheOps' = cacheOps + 1

\* A caller invokes _save_to_cache(key, data, expire_seconds)
save_to_cache_call(key, data, expire_seconds, w) ==
    /\ CacheOp
    /\ cache' = save_to_cache(key, data, expire_seconds, w)
    /\ lastPut' = [kind |-> "put", key |-> key, payload |-> data, ttl |-> expire_seconds,
                   at |-> now, ok |-> Stored(w)]
    /\ lastGet' = None
    /\ UNCHANGED <<cfgVars, clockVars, callVars, bulk, extVars>>

\* Faulty variant of _get_from_cache: an entry that is not returned (expired
\* or unreadable) is deleted on the spot
get_from_cache_call_evicting(key) ==
    /\ CacheOp
    /\ lastGet' = [kind |-> "get", key |-> key, at |-> now,
                   file |-> cache[get_cache_path(key)], result |-> get_from_cache(key)]
    /\ cache' = IF get_from_cache(key) = None
                THEN [cache EXCEPT ![get_cache_path(key)] = NoFile]
                ELSE cache
    /\ UNCHANGED <<cfgVars, clockVars, callVars, lastPut, bulk, extVars>>

\* A caller invokes _get_from_cache(key)
get_from_cache_call(key) ==
    /\ CacheOp
    /\ lastGet' = [kind |-> "get", key |-> key, at |-> now,
                   file |-> cache[get_cache_path(key)], result |-> get_from_cache(key)]
    /\ UNCHANGED <<cfgVars, clockVars, cache, callVars, lastPut, bulk, extVars>>

\* The cache directory holds a file of an earlier version, whose expires_at
\* is a string (or is damaged)
legacy_file(key, expires_at, data) ==
    /\ CacheOp
    /\ cache' = [cache EXCEPT ![get_cache_path(key)] =
                     CacheFile(key, isoformat(0), expires_at, data)]
    /\ lastPut' = IF lastPut.kind = "put" /\ lastPut.key = key THEN None ELSE lastPut
    /\ lastGet' = None
    /\ UNCHANGED <<cfgVars, clockVars, callVars, bulk, extVars>>

\* Out-of-band cache clear: the file of a key is removed
clear_cache(key) ==
    /\ CacheOp
    /\ cache[get_cache_path(key)] # NoFile
    /\ cache' = [cache EXCEPT ![get_cache_path(key)] = NoFile]
    /\ lastPut' = IF lastPut.kind = "put" /\ lastPut.key = key THEN None ELSE lastPut
    /\ lastGet' = None
    /\ UNCHANGED <<cfgVars, clockVars, callVars, bulk, extVars>>

\* Time passes between two cache operations
TimePasses(d) ==
    /\ ticks < MaxTicks
    /\ ticks' = ticks + 1
    /\ now' = now + d
    /\ UNCHANGED <<cfgVars, cache, callVars, cacheOpVars, bulk, extVars>>

InitCache ==
    /\ max_retries = DefaultMaxRetries
    /\ retry_delay = DefaultRetryDelay
    /\ cache_enabled \in BOOLEAN
    /\ Quiescent

NextCache ==
    \/ \E k \in CacheOpKeys, p \in Payloads, t \in Ttls, w \in {"ok", "dump_fails"} :
          save_to_cache_call(k, p, t, w)
    \/ \E k \in CacheOpKeys : get_from_cache_call(k)
    \/ \E k \in CacheOpKeys, e \in LegacyExpiries : legacy_file(k, e, Text(PageBody))
    \/ \E k \in CacheOpKeys : clear_cache(k)
    \/ \E d \in CacheTickSteps : TimePasses(d)

SpecCache == InitCache /\ [][NextCache]_vars

(***************************************************************************)
(* SpecBulk: the bulk operations of the client and of the flyer fetcher.   *)
(* Each item of a bulk operation is one fetch of the layers above, seen    *)
(* here by how it ended:                                                   *)
(*   "ok"      upstream was asked and the item produced its data           *)
(*   "hit"     the item was served from the cache, upstream was not asked  *)
(*   "error"   upstream was asked, the item raised NetworkError/ParseError *)
(*   "blocked" upstream answered with the block page: IPBlockedError       *)
(***************************************************************************)
ItemOutcomes == {"ok", "hit", "error", "blocked"}
Failed(o) == o \in {"error", "blocked"}
ExcOf(o) == IF o = "blocked" THEN "IPBlockedError" ELSE "NetworkError"

\* one item's upstream traffic
Account(b, o) ==
    [b EXCEPT !.requests = @ + (IF o \in {"hit", "exists"} THEN 0 ELSE 1),
              !.blockedAt = IF @ = 0 /\ o = "blocked" THEN b.requests + 1 ELSE @]

\* no handler around the item (or "except (NetworkError, ParseError): raise"):
\* the exception leaves the bulk operation
Propagate(b, o) == [Account(b, o) EXCEPT !.pc = "done", !.result = ExcOf(o)]

\* "except Exception as e: logger.warning(...)": the loop goes on
LogAndContinue(b, o) == [Account(b, o) EXCEPT !.logged = @ + 1]

Finish(b) == [b EXCEPT !.pc = "done", !.result = "returned"]

BulkStep(next) ==
    /\ bulk' = next
    /\ UNCHANGED <<cfgVars, clockVars, cache, callVars, cacheOpVars, extVars>>

get_complete_event_data(include_results) ==
    /\ bulk = NoBulk
    /\ BulkStep([NoBulk EXCEPT !.op = "get_complete_event_data", !.pc = "details_page",
                               !.include_results = include_results])

\* get_event_details: EventDetailsParser.parse fetches the permit page ...
event_details_page(o, nd) ==
    /\ bulk.pc = "details_page"
    /\ BulkStep(IF Failed(o) THEN Propagate(bulk, o)
                ELSE [Account(bulk, o) EXCEPT !.nd = nd,
                          !.pc = IF nd = 0 THEN "disciplines" ELSE "details_categories"])

\* ... and looks up the categories of every discipline, unguarded
event_details_categories(o) ==
    /\ bulk.pc = "details_categories"
    /\ BulkStep(IF Failed(o) THEN Propagate(bulk, o)
                ELSE IF bulk.i + 1 < bulk.nd THEN [Account(bulk, o) EXCEPT !.i = @ + 1]
                ELSE [Account(bulk, o) EXCEPT !.i = 0, !.pc = "disciplines"])

\* where get_complete_event_data goes once its category loop is over
AfterCategories(b) ==
    IF ~b.include_results THEN Finish(b)
    ELSE IF b.categories > 0 THEN [b EXCEPT !.i = 0, !.pc = "results"]
    ELSE [b EXCEPT !.i = 0, !.pc = "races_disciplines"]

\* where get_races_for_permit goes once its category loop is over
AfterRacesCategories(b) ==
    IF b.races = 0 THEN [b EXCEPT !.i = 0, !.pc = "races_direct"]
    ELSE [b EXCEPT !.i = 0, !.pc = "results_races"]

\* get_disciplines_for_event, called by get_complete_event_data and by
\* get_races_for_permit
get_disciplines_for_event(o) ==
    /\ bulk.pc \in {"disciplines", "races_disciplines"}
    /\ BulkStep(IF Failed(o) THEN Propagate(bulk, o)
                ELSE IF bulk.pc = "disciplines"
                THEN (IF bulk.nd = 0 THEN AfterCategories(Account(bulk, o))
                      ELSE [Account(bulk, o) EXCEPT !.i = 0, !.pc = "categories"])
                ELSE (IF bulk.nd = 0 THEN Finish(Account(bulk, o))
                      ELSE [Account(bulk, o) EXCEPT !.i = 0, !.pc = "races_categories"]))

\* the category loop of get_complete_event_data
complete_categories(o, nc) ==
    /\ bulk.pc = "categories"
    /\ LET b == IF Failed(o) THEN LogAndContinue(bulk, o)
                ELSE [Account(bulk, o) EXCEPT !.categories = @ + nc]
       IN BulkStep(IF bulk.i + 1 < bulk.nd THEN [b EXCEPT !.i = @ + 1]
                   ELSE AfterCategories(b))

\* the results loop over the categories found
complete_results(o) ==
    /\ bulk.pc = "results"
    /\ LET b == IF Failed(o) THEN LogAndContinue(bulk, o) ELSE Account(bulk, o)
       IN BulkStep(IF bulk.i + 1 < bulk.categories THEN [b EXCEPT !.i = @ + 1]
                   ELSE Finish(b))

\* get_races_for_permit: categories of a discipline; on any exception the
\* permit page is scanned instead
races_categories(o, nc) ==
    /\ bulk.pc = "races_categories"
    /\ BulkStep(IF Failed(o) THEN [LogAndContinue(bulk, o) EXCEPT !.pc = "races_fallback"]
                ELSE LET b == [Account(bulk, o) EXCEPT !.races = @ + nc]
                     IN IF bulk.i + 1 < bulk.nd THEN [b EXCEPT !.i = @ + 1]
                        ELSE AfterRacesCategories(b))

races_fallback(o, nr) ==
    /\ bulk.pc = "races_fallback"
    /\ LET b == IF Failed(o) THEN LogAndContinue(bulk, o)
                ELSE [Account(bulk, o) EXCEPT !.races = @ + nr]
       IN BulkStep(IF bulk.i + 1 < bulk.nd THEN [b EXCEPT !.i = @ + 1, !.pc = "races_categories"]
                   ELSE AfterRacesCategories(b))

\* get_races_for_permit found no race: fetch_load_info of every discipline
races_direct(o, nc) ==
    /\ bulk.pc = "races_direct"
    /\ LET b == IF Failed(o) THEN LogAndContinue(bulk, o)
                ELSE [Account(bulk, o) EXCEPT !.races = @ + nc]
       IN BulkStep(IF bulk.i + 1 < bulk.nd THEN [b EXCEPT !.i = @ + 1]
                   ELSE IF b.races = 0 THEN Finish(b)
                   ELSE [b EXCEPT !.i = 0, !.pc = "results_races"])

\* the results loop over the races found
results_races(o) ==
    /\ bulk.pc = "results_races"
    /\ LET b == IF Failed(o) THEN LogAndContinue(bulk, o) ELSE Account(bulk, o)
       IN BulkStep(IF bulk.i + 1 < bulk.races THEN [b EXCEPT !.i = @ + 1]
                   ELSE Finish(b))

\* FlyerFetcher.fetch_flyers_batch: the listings of every (year, state) ...
fetch_flyers_batch ==
    /\ bulk = NoBulk
    /\ BulkStep([NoBulk EXCEPT !.op = "fetch_flyers_batch", !.pc = "events"])

batch_get_events(o, found) ==
    /\ bulk.pc = "events"
    /\ LET b == IF Failed(o) THEN LogAndContinue(bulk, o)
                ELSE [Account(bulk, o) EXCEPT !.permits = @ + found]
       IN BulkStep(IF bulk.i + 1 < MaxListings THEN [b EXCEPT !.i = @ + 1]
                   ELSE IF b.permits = 0 THEN Finish(b)
                   ELSE [b EXCEPT !.i = 0, !.pc = "flyers"])

\* ... then fetch_flyer of every permit; fetch_flyer looks at no block marker
\* and turns every exception into a status
FlyerOutcomes == {"exists", "success", "error", "blocked"}

batch_fetch_flyer(o) ==
    /\ bulk.pc = "flyers"
    /\ LET b == IF o = "error" THEN LogAndContinue(bulk, o) ELSE Account(bulk, o)
       IN BulkStep(IF bulk.i + 1 < bulk.permits THEN [b EXCEPT !.i = @ + 1]
                   ELSE Finish(b))

InitBulk ==
    /\ max_retries = DefaultMaxRetries
    /\ retry_delay = DefaultRetryDelay
    /\ cache_enabled \in BOOLEAN
    /\ Quiescent

NextBulk ==
    \/ \E inc \in BOOLEAN : get_complete_event_data(inc)
    \/ \E o \in ItemOutcomes, nd \in 0..MaxDisciplines : event_details_page(o, nd)
    \/ \E o \in ItemOutcomes : event_details_categories(o)
    \/ \E o \in ItemOutcomes : get_disciplines_for_event(o)
    \/ \E o \in ItemOutcomes, nc \in 0..MaxCategories : complete_categories(o, nc)
    \/ \E o \in ItemOutcomes : complete_results(o)
    \/ \E o \in ItemOutcomes, nc \in 0..MaxCategories : races_categories(o, nc)
    \/ \E o \in ItemOutcomes, nr \in 0..MaxCategories : races_fallback(o, nr)
    \/ \E o \in ItemOutcomes, nc \in 0..MaxCategories : races_direct(o, nc)
    \/ \E o \in ItemOutcomes : results_races(o)
    \/ fetch_flyers_batch
    \/ \E o \in ItemOutcomes, found \in 0..1 : batch_get_events(o, found)
    \/ \E o \in FlyerOutcomes : batch_fetch_flyer(o)

SpecBulk == InitBulk /\ [][NextBulk]_vars

(***************************************************************************)
(* SpecRace: several processes on one cache file, without locking.         *)
(* A writer runs _save_to_cache: open(path, "w") creates or truncates the  *)
(* file, json.dump reaches the file in one or more flushes, each at the    *)
(* writer's own offset; the last flush comes with the close.  The reader   *)
(* runs _get_from_cache: cache_path.exists(), then open and json.load.     *)
(* A clear from outside unlinks the file; writers that have it open go on  *)
(* writing to the unlinked file.  The file content is a sequence of chunks *)
(* [w, k]: the k-th chunk of the entry writer w serializes.                *)
(***************************************************************************)
Writers == 1..NumWriters
EntryLen(w) == IF w = 1 THEN 1 ELSE 2      \* entries of different sizes
Chunk(w, k) == [w |-> w, k |-> k]
Hole == [w |-> 0, k |-> 0]                 \* bytes never written (zeros)
Absent == [exists |-> FALSE, data |-> <<>>]
FileOf(data) == [exists |-> TRUE, data |-> data]
CompleteEntry(w) == [k \in 1..EntryLen(w) |-> Chunk(w, k)]

\* write(2) of one chunk at offset off
WriteAt(data, off, chunk) ==
    IF off < Len(data) THEN [data EXCEPT ![off + 1] = chunk]
    ELSE [i \in 1..(off + 1) |-> IF i <= Len(data) THEN data[i]
                                  ELSE IF i = off + 1 THEN chunk ELSE Hole]

\* json.load of what the reader read: the complete entry of one writer; or
\* a well-formed document pieced together from aligned chunks of several
\* writers; or text that json cannot decode (json.JSONDecodeError: None)
json_load(data) ==
    IF \E w \in Writers : data = CompleteEntry(w)
    THEN [kind |-> "entry", w |-> CHOOSE w \in Writers : data = CompleteEntry(w)]
    ELSE IF /\ Len(data) >= 1
            /\ \A i \in 1..Len(data) :
                  /\ data[i].w \in Writers /\ data[i].k = i
                  /\ EntryLen(data[i].w) = Len(data)
    THEN [kind |-> "mixed", w |-> 0]
    ELSE [kind |-> "none", w |-> 0]

StartRace ==
    [op |-> "race", file |-> Absent,
     wpc |-> [w \in Writers |-> "idle"], woff |-> [w \in Writers |-> 0],
     rpc |-> "idle", rres |-> [kind |-> "pending", w |-> 0], cleared |-> FALSE]

RaceStep(next) ==
    /\ race' = next
    /\ UNCHANGED <<cfgVars, clockVars, cache, callVars, cacheOpVars, bulk, parse, flyer, limiter, memo>>

\* the processes are started on an empty cache directory
start_processes ==
    /\ race = NoRace
    /\ cache_enabled
    /\ RaceStep(StartRace)

\* _save_to_cache: open(cache_path, "w")
writer_open(w) ==
    /\ race.op = "race" /\ race.wpc[w] = "idle"
    /\ RaceStep([race EXCEPT !.file = FileOf(<<>>), !.wpc[w] = "open"])

\* _save_to_cache: json.dump flushes the next chunk; the last one on close
writer_flush(w) ==
    /\ race.op = "race" /\ race.wpc[w] \in {"open", "unlinked"}
    /\ LET k == race.woff[w] + 1
           after == IF k = EntryLen(w) THEN "closed" ELSE race.wpc[w]
       IN RaceStep([race EXCEPT
              !.file = IF race.wpc[w] = "open"
                       THEN FileOf(WriteAt(race.file.data, race.woff[w], Chunk(w, k)))
                       ELSE @,
              !.woff[w] = k,
              !.wpc[w] = after])

\* _get_from_cache: `if not cache_path.exists(): return None`
reader_exists ==
    /\ race.op = "race" /\ race.rpc = "idle"
    /\ RaceStep(IF race.file.exists
                THEN [race EXCEPT !.rpc = "checked"]
                ELSE [race EXCEPT !.rpc = "done", !.rres = [kind |-> "none", w |-> 0]])

\* _get_from_cache: open(cache_path) and json.load(f); FileNotFoundError is
\* an OSError, which the except clause of _get_from_cache does not name
reader_load ==
    /\ race.op = "race" /\ race.rpc = "checked"
    /\ RaceStep([race EXCEPT !.rpc = "done",
                    !.rres = IF race.file.exists THEN json_load(race.file.data)
                             ELSE [kind |-> "raise", w |-> 0]])

\* out-of-band cache clear: the file is unlinked
clear_file ==
    /\ race.op = "race" /\ ~race.cleared /\ race.file.exists
    /\ RaceStep([race EXCEPT !.file = Absent, !.cleared = TRUE,
                    !.wpc = [w \in Writers |-> IF race.wpc[w] = "open" THEN "unlinked"
                                               ELSE race.wpc[w]]])

InitRace ==
    /\ max_retries = DefaultMaxRetries
    /\ retry_delay = DefaultRetryDelay
    /\ cache_enabled = TRUE
    /\ Quiescent

NextRace ==
    \/ start_processes
    \/ \E w \in Writers : writer_open(w)
    \/ \E w \in Writers : writer_flush(w)
    \/ reader_exists
    \/ reader_load
    \/ clear_file

SpecRace == InitRace /\ [][NextRace]_vars


(***************************************************************************)
(* Parsing.  RaceResultsParser.parse runs fetch_race_results on what the   *)
(* transport answered and builds the race record from its result.  The     *)
(* parsers of this specification are constructed with cache_enabled=False, *)
(* as the repository's parser tests do.                                    *)
(***************************************************************************)
EnvelopeKeys == {"message", "d"}
MarkSets ==
    { {}, {UnauthorizedMarker}, {MaliciousMarker}, {UnauthorizedMarker, InvalidMarker},
      {InvalidMarker, MaliciousMarker}, {UnauthorizedMarker, InvalidMarker, MaliciousMarker} }

\* the bodies a race-results request can be answered with: plain HTML, HTML
\* under "message" or "d" of a JSON object (markers possibly only in its
\* other members), and a JSON object with neither key, which holds no page
RaceBodies ==
    { Body("html", "none", m, m, page) : m \in MarkSets, page \in RacePages }
    \cup { Body("json", k, m, m, page) : k \in EnvelopeKeys, m \in MarkSets, page \in RacePages }
    \cup { Body("json", k, m, {}, page) : k \in EnvelopeKeys, m \in MarkSets, page \in RacePages }
    \cup { Body("json", "other", m, m, EmptyPage) : m \in MarkSets }

RaceAnswers ==
    { [kind |-> "response", resp |-> Response(200, NoHeader, b)] : b \in RaceBodies }
    \cup { [kind |-> "raise", exc |-> "NetworkError"], None }

\* what the regular expressions of RaceResultsParser.parse find in a name
category_of(name) ==
    CASE name = RaceTitle -> [gender |-> "Men", category_rank |-> "A"]
      [] name = "" -> <<>>

\* RaceResultsParser.parse on the outcome of fetch_race_results
RaceResultsParser_parse(race_id, fetched) ==
    IF fetched.kind = "raise" THEN [kind |-> "raise", exc |-> fetched.exc, value |-> None]
    ELSE [kind |-> "return", exc |-> "",
          value |-> [id |-> race_id, name |-> fetched.value.name,
                     category |-> category_of(fetched.value.name),
                     riders |-> fetched.value.riders, event_id |-> None, date |-> None]]

ParseStep(next) ==
    /\ parse' = next
    /\ UNCHANGED <<cfgVars, clockVars, callVars, cacheOpVars, bulk, race, flyer, limiter, memo>>

parse_race_results(race_id, rr) ==
    LET c == [NoCall EXCEPT !.op = "fetch_race_results", !.race_id = race_id]
        f == fetch_race_results_end(c, rr, "ok")
    IN /\ parse = NoParse      \* one parse call at a time
       /\ cache' = f.cache
       /\ ParseStep([op |-> "race_results", race_id |-> race_id, answer |-> rr,
                     fetched |-> f.out,
                     result |-> RaceResultsParser_parse(race_id, f.out)])

(***************************************************************************)
(* EventListParser.parse.  A listing page is the first table.datatable of  *)
(* the document (or none) as the sequence of its tr elements, each the     *)
(* sequence of its td cells; a cell is its text, the text of its first     *)
(* link and that link's href.                                              *)
(***************************************************************************)
MaxRows == 4
BASE_URL == "https://legacy.usacycling.org"
ListCell(text, link, href) == [text |-> text, link |-> link, href |-> href]
Td(text) == ListCell(text, NoLink, "")
ThRow == <<>>                                   \* a row of th cells: no td
VrlRow ==
    << Td(""), Td("12/02/2020"),
       ListCell("USA Cycling December VRL", "USA Cycling December VRL", "/results/?permit=2020-26"),
       Td("12/18/2020") >>
ParkerRow ==                                    \* five cells, no href, unparsable date
    << Td("<1"), Td("TBD"), ListCell("Elite <U23", "Elite <U23", ""), Td(""), Td("x") >>
MonthRow ==                                     \* a label in the first cell
    << Td("December"), Td("12/02/2020"),
       ListCell("CYCLO-X Parker", "CYCLO-X Parker", "/results/?permit=2020-2882"), Td("") >>
NoLinkRow == << Td(""), Td("12/02/2020"), Td("Cancelled"), Td("") >>
ThreeCellRow ==
    << Td(""), Td("12/02/2020"), ListCell("Short", "Short", "/results/?permit=2020-1") >>
ListRows == {ThRow, VrlRow, ParkerRow, MonthRow, NoLinkRow, ThreeCellRow}

NoDatatable == [present |-> FALSE, rows |-> <<>>]
Datatable(rows) == [present |-> TRUE, rows |-> rows]
ListPages ==
    {NoDatatable} \cup
    { Datatable(rows) : rows \in UNION { [1..n -> ListRows] : n \in 0..MaxRows } }

\* BaseParser._extract_date over the date texts of the rows
extract_date(date_str) ==
    CASE date_str = "12/02/2020" -> [year |-> 2020, month |-> 12, day |-> 2]
      [] date_str = "12/18/2020" -> [year |-> 2020, month |-> 12, day |-> 18]
      [] OTHER -> None                          \* empty, or no format matches

\* re.search(r"permit=([^&]+)", event_url)
permit_of(href) ==
    CASE href = "/results/?permit=2020-26" -> "2020-26"
      [] href = "/results/?permit=2020-2882" -> "2020-2882"
      [] href = "/results/?permit=2020-1" -> "2020-1"
      [] OTHER -> ""

\* urljoin(BASE_URL, href) of a relative href
absolute_url(href) == IF href = "" THEN "" ELSE <<BASE_URL, href>>

event_of(cells) ==
    [event_date |-> extract_date(extract_text(cells[2])),
     name |-> before_lt(cells[3].link),
     permit |-> permit_of(cells[3].href),
     permit_url |-> absolute_url(cells[3].href),
     submit_date |-> extract_date(extract_text(cells[4])),
     html |-> cells]

\* the loop over event_rows[2:], from row i on
RECURSIVE parse_event_rows(_, _)
parse_event_rows(rows, i) ==
    IF i > Len(rows) THEN <<>>
    ELSE LET cells == rows[i]
             rest == parse_event_rows(rows, i + 1)
         IN IF Len(cells) < 4 THEN rest
            ELSE IF extract_text(cells[1]) # "" THEN rest
            ELSE IF cells[3].link = NoLink THEN rest
            ELSE <<event_of(cells)>> \o rest

\* Faulty variant: only one header row is skipped
EventListParser_events_one_header_row(page) ==
    IF ~page.present THEN <<>>
    ELSE IF Len(page.rows) <= 1 THEN <<>>
    ELSE parse_event_rows(page.rows, 2)

\* EventListParser.parse on the fetched page
EventListParser_events(page) ==
    IF ~page.present THEN <<>>
    ELSE IF Len(page.rows) <= 2 THEN <<>>
    ELSE parse_event_rows(page.rows, 3)

ListAnswers ==
    { [kind |-> "response", resp |-> Response(200, NoHeader, Body("html", "none", {}, {}, page))] :
        page \in ListPages }
    \cup { [kind |-> "response", resp |-> Response(200, NoHeader, BlockedBody)],
           [kind |-> "raise", exc |-> "NetworkError"] }

\* EventListParser.parse: fetch_event_list, then the rows of the table
parse_event_list(rr) ==
    LET c == [NoCall EXCEPT !.op = "fetch_content", !.url = ContentUrl,
                            !.params = <<ParamA, ParamB>>]
        f == fetch_content_end(c, rr, "ok")
    IN /\ parse = NoParse      \* one parse call at a time
       /\ cache' = f.cache
       /\ ParseStep([op |-> "event_list", race_id |-> "", answer |-> rr, fetched |-> f.out,
                     result |-> IF f.out.kind = "raise"
                                THEN [kind |-> "raise", exc |-> f.out.exc, value |-> None]
                                ELSE [kind |-> "return", exc |-> "",
                                      value |-> EventListParser_events(f.out.value.body.page)]])

(***************************************************************************)
(* EventDetailsParser.parse.  A permit page is the `#pgcontent h3` header  *)
(* as the lines between its br elements (no line: no header, or a header   *)
(* without text; the last line is never blank, lines before a br may be)   *)
(* and the `a[onclick^="loadInfoID"]` links in document order.             *)
(***************************************************************************)
HeaderLinesRead == 3                            \* `len(header_lines) >= 3`: later lines are not read
CurrentYear == 2026                             \* datetime.now().year
Permits == {"2020-26", "TBD"}
LineTexts ==
    {"", "USA Cycling December VRL", "Colorado Springs, CO", "Dec 2, 2020 - Dec 30, 2020",
     "Dec 2, 2020"}
Headers ==
    { h \in UNION { [1..n -> LineTexts] : n \in 0..HeaderLinesRead } :
        h # <<>> => h[Len(h)] # "" }

DisciplineLink(info_id, race_date, text) ==
    [info_id |-> info_id, race_date |-> race_date, text |-> text]
XcuLink == DisciplineLink("132893", "12/02/2020", "Cross Country Ultra Endurance 12/02/2020")
BareLink == DisciplineLink("", "", "Road Race")     \* onclick="loadInfoID()"
BlankLink == DisciplineLink("132893", "12/02/2020", "")
Links == { <<>>, <<XcuLink>>, <<BlankLink>>, <<BareLink, XcuLink>>, <<XcuLink, BlankLink, XcuLink>> }

PermitPage(header, links) == [header |-> header, links |-> links]
PermitPages == { PermitPage(h, l) : h \in Headers, l \in Links }

\* re.match(r"(\d{4})-", permit)
year_of(permit) == IF permit = "2020-26" THEN 2020 ELSE CurrentYear

\* line.split(","), each part stripped
comma_parts(line) ==
    CASE line = "Colorado Springs, CO" -> <<"Colorado Springs", "CO">>
      [] line = "Dec 2, 2020 - Dec 30, 2020" -> <<"Dec 2", "2020 - Dec 30", "2020">>
      [] line = "Dec 2, 2020" -> <<"Dec 2", "2020">>
      [] OTHER -> <<line>>

\* re.search(r"\b([A-Z]{2})\b", state_part)
state_abbreviation(part) == IF part = "CO" THEN "CO" ELSE ""

\* re.findall(r"([A-Za-z]+ \d+, \d{4})", date_text)
dates_in(line) ==
    CASE line = "Dec 2, 2020 - Dec 30, 2020" -> <<"Dec 2, 2020", "Dec 30, 2020">>
      [] line = "Dec 2, 2020" -> <<"Dec 2, 2020">>
      [] OTHER -> <<>>

\* BaseParser._extract_date of the matches above ("%b %d, %Y")
extract_header_date(date_str) ==
    CASE date_str = "Dec 2, 2020" -> [year |-> 2020, month |-> 12, day |-> 2]
      [] date_str = "Dec 30, 2020" -> [year |-> 2020, month |-> 12, day |-> 30]

\* re.sub(r"\s+\d{2}/\d{2}/\d{4}$", "", discipline_text)
clean_discipline(text) ==
    IF text = "Cross Country Ultra Endurance 12/02/2020" THEN "Cross Country Ultra Endurance"
    ELSE text

NoFields == [k \in {} |-> None]

\* the fields the header gives
header_fields(lines) ==
    LET name == IF Len(lines) >= 1 THEN [name |-> lines[1]] ELSE NoFields
        parts == comma_parts(lines[2])
        place == IF Len(lines) >= 2 /\ Len(parts) >= 2
                 THEN [location |-> parts[1], state |-> state_abbreviation(parts[2])]
                 ELSE NoFields
        dates == dates_in(lines[3])
        start == IF Len(lines) >= 3 /\ Len(dates) >= 1
                 THEN [start_date |-> extract_header_date(dates[1])] ELSE NoFields
        end == IF Len(lines) >= 3 /\ Len(dates) >= 2
               THEN [end_date |-> extract_header_date(dates[2])]
               ELSE IF Len(lines) >= 3 /\ Len(dates) >= 1
               THEN [end_date |-> extract_header_date(dates[1])] ELSE NoFields
    IN name @@ place @@ start @@ end

has_text(link) == extract_text(link) # ""

\* the disciplines list: one entry per link with text
disciplines_of(links) ==
    LET ls == SelectSeq(links, has_text)
    IN [i \in 1..Len(ls) |->
           [load_info_id |-> ls[i].info_id,
            discipline |-> clean_discipline(extract_text(ls[i])),
            race_date |-> ls[i].race_date]]

\* the load-info answer: fetch_load_info's categories, and the record
\* RaceResultsParser.parse_race_categories makes of each
LoadInfoCategories == << [id |-> "1337864", name |-> RaceTitle] >>
LoadInfoBody == Body("html", "none", {}, {}, LoadInfoCategories)
race_category(cat, info_id, label) ==
    [race_id |-> cat.id, name |-> cat.name, info_id |-> info_id, label |-> label,
     gender |-> IF cat.name = RaceTitle THEN "Men" ELSE None,
     category_rank |-> IF cat.name = RaceTitle THEN "A" ELSE None,
     category_type |-> None]
race_categories(cats, info_id, label) ==
    [i \in 1..Len(cats) |-> race_category(cats[i], info_id, label)]

\* f"Event {permit}"
default_name(permit) == IF permit = "2020-26" THEN "Event 2020-26" ELSE "Event TBD"

defaults(permit) ==
    [name |-> default_name(permit), location |-> "Unknown", state |-> "",
     start_date |-> None, end_date |-> None, is_usac_sanctioned |-> TRUE,
     promoter |-> None, promoter_email |-> None, website |-> None,
     registration_url |-> None, description |-> None]

\* The category lookups run on `RaceResultsParser()`, a parser with the
\* default configuration: its response cache is enabled.  n is what the
\* transport does for the lookups that miss the cache.
LookupOutcomes == {"ok", "fails"}
lookup_keys(ds) == { build_load_info_url(ds[i].load_info_id, "") : i \in 1..Len(ds) }
lookup_misses(ds) == { k \in lookup_keys(ds) : read_cache_file(k) = None }
categories_of(ds) ==
    [i \in 1..Len(ds) |->
        LET hit == read_cache_file(build_load_info_url(ds[i].load_info_id, ""))
            cats == IF hit = None THEN LoadInfoCategories ELSE hit.data.response.body.page
        IN [load_info_id |-> ds[i].load_info_id,
            categories |-> race_categories(cats, ds[i].load_info_id, "")]]
cache_after_lookups(ds) ==
    [p \in CachePaths |->
        IF \E k \in lookup_misses(ds) : p = get_cache_path(k)
        THEN LET k == CHOOSE k \in lookup_misses(ds) : p = get_cache_path(k)
             IN CacheFile(k, isoformat(now), timestamp(now + DefaultExpireSeconds),
                          Text(LoadInfoBody))
        ELSE cache[p]]

\* EventDetailsParser.parse after the permit page was fetched
EventDetailsParser_details(permit, page, n) ==
    LET ds == disciplines_of(page.links) IN
    IF n = "fails" /\ lookup_misses(ds) # {}
    THEN [kind |-> "raise", exc |-> "NetworkError", value |-> None]
    ELSE [kind |-> "return", exc |-> "",
          value |-> [id |-> permit, permit_id |-> permit, year |-> year_of(permit),
                     disciplines |-> ds, categories |-> categories_of(ds)]
                    @@ header_fields(page.header) @@ defaults(permit)]

PermitAnswers ==
    { [kind |-> "response", resp |-> Response(200, NoHeader, Body("html", "none", {}, {}, page))] :
        page \in PermitPages }
    \cup { [kind |-> "response", resp |-> Response(200, NoHeader, BlockedBody)],
           [kind |-> "raise", exc |-> "NetworkError"] }

\* EventDetailsParser.parse: fetch_permit_page, the header, the links, the
\* category lookups, the defaults
parse_event_details(permit, rr, n) ==
    LET c == [NoCall EXCEPT !.op = "fetch_content", !.url = <<"permit", permit>>]
        f == fetch_content_end(c, rr, "ok")
        ds == disciplines_of(f.out.value.body.page.links)
    IN /\ parse = NoParse      \* one parse call at a time
       /\ cache' = IF f.out.kind = "return" /\ n = "ok" THEN cache_after_lookups(ds) ELSE cache
       /\ ParseStep([op |-> "event_details", race_id |-> permit, answer |-> rr,
                     fetched |-> f.out,
                     result |-> IF f.out.kind = "raise"
                                THEN [kind |-> "raise", exc |-> f.out.exc, value |-> None]
                                ELSE EventDetailsParser_details(permit, f.out.value.body.page, n)])

\* the caller has taken the result
parse_returned ==
    /\ parse # NoParse
    /\ parse' = NoParse
    /\ UNCHANGED <<cfgVars, clockVars, cache, callVars, cacheOpVars, bulk, race, flyer, limiter, memo>>

InitParse ==
    /\ Quiescent
    /\ max_retries = DefaultMaxRetries
    /\ retry_delay = DefaultRetryDelay
    /\ cache_enabled = FALSE

NextParse ==
    \/ \E race_id \in RaceIds, rr \in RaceAnswers : parse_race_results(race_id, rr)
    \/ \E rr \in ListAnswers : parse_event_list(rr)
    \/ \E permit \in Permits, rr \in PermitAnswers, n \in LookupOutcomes :
          parse_event_details(permit, rr, n)
    \/ parse_returned

SpecParse == InitParse /\ [][NextParse]_vars

\* the answers fetch_race_results extracts a page from (lines 620-703)
Extracted ==
    /\ parse.op = "race_results"
    /\ parse.answer.kind = "response"
    /\ ~is_blocked(parse.answer.resp.body)
    /\ UnauthorizedMarker \notin parse.answer.resp.body.html_marks

\* RaceResultsParser._extract_riders: `location.split(",")`, stripped parts
split_location(location) ==
    CASE location = "Boulder, CO" -> [city |-> "Boulder", state |-> "CO"]
      [] location = "Denver" -> [city |-> "Denver", state |-> None]
      [] location = "" -> [city |-> None, state |-> None]

\* RaceResultsParser._extract_riders: the substrings of place.lower()
place_flags(place) ==
    CASE place = "DNF" -> [is_dnf |-> TRUE, is_dns |-> FALSE, is_dq |-> FALSE]
      [] OTHER -> [is_dnf |-> FALSE, is_dns |-> FALSE, is_dq |-> FALSE]

RiderFields ==
    {"place", "name", "city", "state", "time", "license", "bib", "team",
     "is_dnf", "is_dns", "is_dq"}

\* the rider record _extract_riders builds from a row of 11 cells
is_record_of(r, row) ==
    /\ RiderFields \subseteq DOMAIN r
    /\ r.place = extract_text(row.cells[2])
    /\ r.name = row.cells[5].link
    /\ r.city = split_location(extract_text(row.cells[6])).city
    /\ r.state = split_location(extract_text(row.cells[6])).state
    /\ r.time = extract_text(row.cells[7])
    /\ r.license = extract_text(row.cells[9])
    /\ r.bib = extract_text(row.cells[10])
    /\ r.team = extract_text(row.cells[11])
    /\ r.is_dnf = place_flags(r.place).is_dnf
    /\ r.is_dns = place_flags(r.place).is_dns
    /\ r.is_dq = place_flags(r.place).is_dq

(***************************************************************************)
(* FlyerFetcher.fetch_flyer.  The storage is the set of files of the       *)
(* storage directory (or of the S3 prefix); a file is named after the      *)
(* permit, the source of an HTML flyer and the extension, and may be the   *)
(* partial file of a write that failed.                                    *)
(***************************************************************************)
MaxFlyerCalls == 2
FlyerPermits == {"2020-1", "2020-12"}
FlyerFile(permit, source, extension, content, complete) ==
    [permit |-> permit, source |-> source, extension |-> extension, content |-> content,
     complete |-> complete]

\* file.startswith(filename.split(".")[0]) for the names _get_filename builds:
\* "2020_12..." starts with "2020_1"
name_starts_with(file_permit, permit) ==
    file_permit = permit \/ (file_permit = "2020-12" /\ permit = "2020-1")

\* FlyerFetcher._check_flyer_exists; an error of the listing is logged and
\* answered with False
check_flyer_exists(storage, permit, listing) ==
    /\ listing = "ok"
    /\ \E f \in storage : name_starts_with(f.permit, permit)

ContentTypes == {"application/pdf", "application/msword", "text/html; charset=utf-8", ""}
extension_of(content_type) ==
    CASE content_type = "application/pdf" -> ".pdf"
      [] content_type = "application/msword" -> ".doc"
      [] content_type = "text/html; charset=utf-8" -> ".html"
      [] OTHER -> ".bin"

FlyerResponse(content_type) == [kind |-> "response", content_type |-> content_type]
\* what _fetch_with_retries does for the flyer URL: a response, an
\* exception, or None
FlyerAnswers ==
    { FlyerResponse(ct) : ct \in ContentTypes }
    \cup { [kind |-> "raise", exc |-> "NetworkError"], None }

\* _inspect_html: the source of an HTML flyer, or ParseError
InspectOutcomes == {"std", "custom", "ParseError"}
\* _save_flyer: written, nothing written, or a partial file left behind
SaveOutcomes == {"saved", "open_fails", "write_fails"}

FlyerError(permit, error) == [status |-> "error", permit |-> permit, error |-> error]

\* Faulty variant: the outcome of _save_flyer is not looked at
flyer_saved_result_unchecked(success, permit, file, content_type) ==
    [status |-> "success", permit |-> permit, filename |-> file,
     content_type |-> content_type, extension |-> file.extension, source |-> file.source]

\* fetch_flyer, "Save the flyer": the mapping returned after _save_flyer
flyer_saved_result(success, permit, file, content_type) ==
    IF success
    THEN [status |-> "success", permit |-> permit, filename |-> file,
          content_type |-> content_type, extension |-> file.extension, source |-> file.source]
    ELSE FlyerError(permit, "Failed to save flyer")

\* fetch_flyer after the existence check said no: the mapping returned, the
\* storage left behind and whether _save_flyer wrote the whole flyer
\* _fetch_with_retries calls made.  For an HTML answer the fallback URL is
\* fetched too; when that fails the first content is kept.
fetch_flyer_body(storage, permit, answer, fallback, inspect, save) ==
    CASE answer.kind = "raise" ->
            [result |-> FlyerError(permit, answer.exc), storage |-> storage, saved |-> FALSE,
             requests |-> 1]
      [] answer.kind = "none" ->      \* None.headers: AttributeError
            [result |-> FlyerError(permit, "AttributeError"), storage |-> storage,
             saved |-> FALSE, requests |-> 1]
      [] OTHER ->
            LET extension == extension_of(answer.content_type)
                html == extension = ".html"
                source == IF html THEN inspect ELSE ""
                content == IF html /\ fallback = "ok" THEN "fallback" ELSE "flyer"
                file == FlyerFile(permit, source, extension, content, save = "saved")
                fetches == IF html THEN 2 ELSE 1
            IN IF html /\ inspect = "ParseError"
               THEN [result |-> FlyerError(permit, "ParseError"), storage |-> storage,
                     saved |-> FALSE, requests |-> fetches]
               ELSE [result |-> flyer_saved_result(save = "saved", permit, file, answer.content_type),
                     storage |-> IF save = "open_fails" THEN storage ELSE storage \cup {file},
                     saved |-> save = "saved", requests |-> fetches]

FlyerStep(next) ==
    /\ flyer' = next
    /\ UNCHANGED <<cfgVars, clockVars, cache, callVars, cacheOpVars, bulk, race, parse, limiter, memo>>

\* FlyerFetcher.fetch_flyer(permit)
fetch_flyer(permit, listing, answer, fallback, inspect, save) ==
    /\ flyer.calls < MaxFlyerCalls
    /\ IF check_flyer_exists(flyer.storage, permit, listing)
       THEN FlyerStep([flyer EXCEPT !.op = "fetch_flyer", !.permit = permit, !.tried = FALSE,
                                    !.answer = None, !.requests = 0, !.saved = FALSE,
                                    !.result = [status |-> "exists", permit |-> permit],
                                    !.calls = @ + 1])
       ELSE LET b == fetch_flyer_body(flyer.storage, permit, answer, fallback, inspect, save) IN
            FlyerStep([flyer EXCEPT !.op = "fetch_flyer", !.permit = permit, !.tried = TRUE,
                                    !.answer = answer, !.requests = b.requests,
                                    !.saved = b.saved,
                                    !.result = b.result, !.storage = b.storage,
                                    !.calls = @ + 1])

\* a stored flyer is removed out of band
remove_flyer(f) ==
    /\ f \in flyer.storage
    /\ FlyerStep([flyer EXCEPT !.op = "remove", !.storage = @ \ {f}])

InitFlyer ==
    /\ Quiescent
    /\ max_retries = DefaultMaxRetries
    /\ retry_delay = DefaultRetryDelay
    /\ cache_enabled = TRUE

NextFlyer ==
    \/ \E permit \in FlyerPermits, listing \in {"ok", "fails"}, answer \in FlyerAnswers,
          fallback \in {"ok", "fails"}, inspect \in InspectOutcomes, save \in SaveOutcomes :
          fetch_flyer(permit, listing, answer, fallback, inspect, save)
    \/ \E f \in flyer.storage : remove_flyer(f)

SpecFlyer == InitFlyer /\ [][NextFlyer]_vars

(***************************************************************************)
(* utils.RateLimiter.  Time is counted in units of 12 seconds, so that the *)
(* default max_backoff of 60 s is 5 units and the jitter of +-20% keeps    *)
(* every sleep a whole number of units.  granted lists the instants at     *)
(* which acquire() let a caller through.                                   *)
(***************************************************************************)
MaxLimiterCalls == 2
MaxLimiterTime == 14
DefaultMaxBackoff == 5                          \* max_backoff = 60.0 seconds
Periods == {5, 10}                              \* 60 s (the default) and 120 s
JitterTenths == {8, 10, 12}                     \* random.uniform(0.8, 1.2), in tenths
ClockSteps == {1, 3}
NoBackoff == -1                                 \* backoff_until = None

\* Faulty variant: the window counts as full only beyond max_calls entries
limit_reached_beyond(history, max_calls) == Len(history) > max_calls

\* `len(self.call_history) >= self.max_calls`
limit_reached(history, max_calls) == Len(history) >= max_calls

\* `while call_history and call_history[0] < now - period: popleft()`
RECURSIVE clean_history(_, _, _)
clean_history(history, t, period) ==
    IF history # <<>> /\ Head(history) < t - period
    THEN clean_history(Tail(history), t, period)
    ELSE history

\* deque(maxlen=max_calls).append
deque_append(history, t, max_calls) ==
    IF Len(history) >= max_calls THEN Tail(history) \o <<t>> ELSE history \o <<t>>

\* min(period * backoff_factor ** (len - max_calls), max_backoff), jittered;
\* the deque never holds more than max_calls entries, so the exponent is 0
backoff_time(period, jitter) ==
    ((IF period < DefaultMaxBackoff THEN period ELSE DefaultMaxBackoff) * jitter) \div 10

LimiterStep(next) ==
    /\ limiter' = next
    /\ UNCHANGED <<cfgVars, clockVars, cache, callVars, cacheOpVars, bulk, race, parse, flyer, memo>>

\* RateLimiter(max_calls=..., period=...)
RateLimiter_init(max_calls, period) ==
    /\ limiter = NoLimiter
    /\ LimiterStep([op |-> "init", pc |-> "idle", max_calls |-> max_calls, period |-> period,
                    call_history |-> <<>>, backoff_until |-> NoBackoff, t |-> 0,
                    total_wait_time |-> 0, slept |-> 0, call_at |-> 0, full_at_call |-> FALSE,
                    granted |-> <<>>, result |-> 0])

\* the acquisitions granted in the window [t - period, t]
granted_in_window(l, t) == { i \in 1..Len(l.granted) : l.granted[i] >= t - l.period /\ l.granted[i] <= t }

\* acquire() is entered: the lock is taken, total_wait_time = 0
acquire ==
    /\ limiter.op # "none" /\ limiter.pc = "idle"
    /\ LimiterStep([limiter EXCEPT !.op = "acquire", !.pc = "loop", !.total_wait_time = 0,
                                   !.slept = 0, !.call_at = limiter.t,
                                   !.full_at_call =
                                       Cardinality(granted_in_window(limiter, limiter.t))
                                           >= limiter.max_calls])

\* one pass of the `while True` loop of acquire(); jitter is this pass's
\* random factor
acquire_loop(jitter) ==
    /\ limiter.op # "none" /\ limiter.pc = "loop"
    /\ LET in_backoff == limiter.backoff_until # NoBackoff /\ limiter.t < limiter.backoff_until
           wait_time == IF in_backoff THEN limiter.backoff_until - limiter.t ELSE 0
           t1 == limiter.t + wait_time
           history == clean_history(limiter.call_history, t1, limiter.period)
           b == backoff_time(limiter.period, jitter)
       IN IF limit_reached(history, limiter.max_calls)
          THEN /\ t1 + b <= MaxLimiterTime
               /\ LimiterStep([limiter EXCEPT !.call_history = history,
                                              !.backoff_until = t1 + b,
                                              !.t = t1 + b,
                                              !.total_wait_time = @ + wait_time + b,
                                              !.slept = @ + (IF in_backoff THEN 2 ELSE 1)])
          ELSE LimiterStep([limiter EXCEPT !.op = "acquired", !.pc = "idle",
                                           !.call_history = deque_append(history, t1, limiter.max_calls),
                                           !.t = t1,
                                           !.total_wait_time = @ + wait_time,
                                           !.slept = @ + (IF in_backoff THEN 1 ELSE 0),
                                           !.granted = Append(@, t1),
                                           !.result = limiter.total_wait_time + wait_time])

\* time passes between two calls
clock_advance(d) ==
    /\ limiter.op # "none" /\ limiter.pc = "idle"
    /\ limiter.t + d <= MaxLimiterTime
    /\ LimiterStep([limiter EXCEPT !.op = "clock", !.t = @ + d])

InitLimiter ==
    /\ Quiescent
    /\ max_retries = DefaultMaxRetries
    /\ retry_delay = DefaultRetryDelay
    /\ cache_enabled = TRUE

NextLimiter ==
    \/ \E max_calls \in 1..MaxLimiterCalls, period \in Periods : RateLimiter_init(max_calls, period)
    \/ acquire
    \/ \E jitter \in JitterTenths : acquire_loop(jitter)
    \/ \E d \in ClockSteps : clock_advance(d)

SpecLimiter == InitLimiter /\ [][NextLimiter]_vars

(***************************************************************************)
(* rate_limit_decorator: the closure state (call_history, backoff_until)   *)
(* and one step per call of the wrapped function.  Times are in the units  *)
(* of the RateLimiter model above.                                         *)
(***************************************************************************)
BackoffFactors == {2, 3}                        \* backoff_factor (2.0 is the default)
MaxBackoffs == {DefaultMaxBackoff, 10}          \* max_backoff: 60 s (the default) and 120 s

RECURSIVE Power(_, _)
Power(b, e) == IF e <= 0 THEN 1 ELSE b * Power(b, e - 1)

\* min(period * (backoff_factor ** (len(call_history) - max_calls)), max_backoff),
\* then `backoff_time *= random.uniform(0.8, 1.2)` when jitter is requested
decorator_backoff_time(d, history, factor) ==
    LET raw == d.period * Power(d.backoff_factor, Len(history) - d.max_calls)
        capped == IF raw < d.max_backoff THEN raw ELSE d.max_backoff
    IN IF d.jitter THEN (capped * factor) \div 10 ELSE capped

\* rate_limit_decorator(max_calls, period, backoff_factor, max_backoff, jitter)(func)
rate_limit_decorator(max_calls, period, backoff_factor, max_backoff, jitter) ==
    /\ limiter = NoLimiter
    /\ LimiterStep([op |-> "decorated", max_calls |-> max_calls, period |-> period,
                    backoff_factor |-> backoff_factor, max_backoff |-> max_backoff,
                    jitter |-> jitter, call_history |-> <<>>, backoff_until |-> NoBackoff,
                    t |-> 0, slept |-> 0, waited |-> 0, call_at |-> 0,
                    invoked |-> <<>>])

\* one call of the wrapper: wait out a pending backoff, clean the history,
\* back off once when the history is full, record the call, run func
wrapper(factor) ==
    /\ limiter.op \in {"decorated", "called", "later"}
    /\ LET in_backoff == limiter.backoff_until # NoBackoff /\ limiter.t < limiter.backoff_until
           wait_time == IF in_backoff THEN limiter.backoff_until - limiter.t ELSE 0
           t1 == limiter.t + wait_time
           history == clean_history(limiter.call_history, t1, limiter.period)
           full == limit_reached(history, limiter.max_calls)
           b == IF full THEN decorator_backoff_time(limiter, history, factor) ELSE 0
           t2 == t1 + b
           cleaned == IF full THEN clean_history(history, t2, limiter.period) ELSE history
       IN /\ t2 <= MaxLimiterTime
          /\ LimiterStep([limiter EXCEPT !.op = "called",
                                         !.backoff_until = IF full THEN t2 ELSE @,
                                         !.call_history = deque_append(cleaned, t2, limiter.max_calls),
                                         !.t = t2,
                                         !.call_at = limiter.t,
                                         !.waited = wait_time + b,
                                         !.slept = (IF in_backoff THEN 1 ELSE 0) + (IF full THEN 1 ELSE 0),
                                         !.invoked = Append(@, t2)])

\* time passes between two calls of the wrapped function
decorator_clock_advance(d) ==
    /\ limiter.op \in {"decorated", "called", "later"}
    /\ limiter.t + d <= MaxLimiterTime
    /\ LimiterStep([limiter EXCEPT !.op = "later", !.t = @ + d])

InitDecorator == InitLimiter

NextDecorator ==
    \/ \E max_calls \in 1..MaxLimiterCalls, period \in Periods, backoff_factor \in BackoffFactors,
          max_backoff \in MaxBackoffs, jitter \in BOOLEAN :
           rate_limit_decorator(max_calls, period, backoff_factor, max_backoff, jitter)
    \/ \E factor \in JitterTenths : wrapper(factor)
    \/ \E d \in ClockSteps : decorator_clock_advance(d)

SpecDecorator == InitDecorator /\ [][NextDecorator]_vars

(***************************************************************************)
(* RaceResultsParser._extract_riders on a div-grid: the rows selected by   *)
(* `div.tablerow.odd, div.tablerow.even`, each the sequence of its         *)
(* `div.tablecell.results` cells.                                          *)
(***************************************************************************)
MaxCells == 12
MaxGridRows == 2
TwelveCells ==
    << TextCell(""), TextCell("1"), TextCell("25"), TextCell(""),
       Cell("John Doe", "John Doe"), TextCell("Boulder, CO"), TextCell("01:01:07"),
       TextCell(""), TextCell("12345"), TextCell("101"), TextCell("Team Alpha"),
       TextCell("extra") >>
RowOfCells(n) == GridRow({"tablerow", "odd"}, SubSeq(TwelveCells, 1, n))
Grids ==
    UNION { [1..k -> {HeaderRow, JaneSmithRow} \cup { RowOfCells(n) : n \in 0..MaxCells }] :
              k \in 0..MaxGridRows }

\* int(text) under contextlib.suppress(ValueError, TypeError)
int_of(text) ==
    CASE text = "1" -> 1
      [] text = "25" -> 25
      [] OTHER -> None

\* the highest index the loop body reads: cells[10]
LastCellRead == 10

\* the body of the loop for one row: "skip" (`len(cells) < 6`), the rider
\* record, or the IndexError of a cell index the row does not have
extract_rider(row) ==
    LET cells == row.cells
        n == Len(cells)
    IN IF n < 6 THEN [kind |-> "skip"]
       ELSE IF n <= LastCellRead THEN [kind |-> "raise", exc |-> "IndexError"]
       ELSE LET place == extract_text(cells[2])
                points == extract_text(cells[3])
                flags == place_flags(place)
                where == split_location(extract_text(cells[6]))
                rider == [place |-> place,
                          place_number |-> IF flags.is_dnf \/ flags.is_dns \/ flags.is_dq
                                           THEN None ELSE int_of(place),
                          name |-> IF cells[5].link # NoLink THEN before_lt(cells[5].link)
                                   ELSE extract_text(cells[5]),
                          city |-> where.city, state |-> where.state,
                          team |-> extract_text(cells[11]),
                          license |-> extract_text(cells[9]),
                          bib |-> extract_text(cells[10]),
                          time |-> extract_text(cells[7]),
                          is_dnf |-> flags.is_dnf, is_dns |-> flags.is_dns, is_dq |-> flags.is_dq]
            IN [kind |-> "rider",
                rider |-> IF points # "" THEN rider @@ [points |-> int_of(points)] ELSE rider]

is_odd_or_even(row) == "odd" \in row.classes \/ "even" \in row.classes

\* the loop over rider_rows, from row i on
RECURSIVE extract_riders_from(_, _)
extract_riders_from(rows, i) ==
    IF i > Len(rows) THEN [kind |-> "return", exc |-> "", value |-> <<>>]
    ELSE LET r == extract_rider(rows[i])
             rest == extract_riders_from(rows, i + 1)
         IN IF r.kind = "raise" THEN [kind |-> "raise", exc |-> r.exc, value |-> None]
            ELSE IF rest.kind = "raise" \/ r.kind = "skip" THEN rest
            ELSE [rest EXCEPT !.value = <<r.rider>> \o @]

\* RaceResultsParser._extract_riders(soup)
extract_riders(grid) == extract_riders_from(SelectSeq(grid, is_odd_or_even), 1)

\* a caller invokes _extract_riders on a parsed document
extract_riders_call(grid) ==
    /\ parse = NoParse
    /\ UNCHANGED cache
    /\ ParseStep([op |-> "extract_riders", grid |-> grid, result |-> extract_riders(grid)])

InitRiders == InitParse

NextRiders ==
    \/ \E grid \in Grids : extract_riders_call(grid)
    \/ parse_returned

SpecRiders == InitRiders /\ [][NextRiders]_vars

(***************************************************************************)
(* USACyclingClient.get_race_categories.  A load-info page is the sequence *)
(* of its `li[id^='race_']` items, each its id attribute and the text of   *)
(* its first link (NoLink: the item has no link).                          *)
(***************************************************************************)
MaxItems == 3
RaceItem(elem_id, link) == [elem_id |-> elem_id, link |-> link]
RaceItems ==
    { RaceItem("race_1337864", RaceTitle), RaceItem("race_1337865", NoLink),
      RaceItem("race_", "Unnumbered"), RaceItem("race_1337866", "Elite <U23") }
LoadInfoPages == UNION { [1..n -> RaceItems] : n \in 0..MaxItems }

\* BaseParser._extract_race_id: re.search(r"race_(\d+)", race_element_id)
extract_race_id(elem_id) ==
    CASE elem_id = "race_1337864" -> "1337864"
      [] elem_id = "race_1337865" -> "1337865"
      [] elem_id = "race_1337866" -> "1337866"
      [] OTHER -> ""

has_race_id(item) == extract_race_id(item.elem_id) # ""

\* fetch_load_info: result["categories"], one {"id", "name"} per item with
\* a race id
load_info_categories(items) ==
    LET its == SelectSeq(items, has_race_id)
    IN [i \in 1..Len(its) |->
           [id |-> extract_race_id(its[i].elem_id),
            name |-> IF its[i].link = NoLink THEN "" ELSE before_lt(its[i].link)]]

has_id_key(category_data) == "id" \in DOMAIN category_data

\* the loop of get_race_categories: RaceCategory(id=category_data["id"], ...)
\* under `except Exception: continue`
race_category_objects(categories_data) ==
    LET ok == SelectSeq(categories_data, has_id_key)
    IN [i \in 1..Len(ok) |->
           [id |-> ok[i].id, name |-> ok[i].name, event_id |-> ok[i].info_id,
            gender |-> ok[i].gender, category_rank |-> ok[i].category_rank,
            category_type |-> ok[i].category_type]]

LoadInfoAnswers ==
    { [kind |-> "response", resp |-> Response(200, NoHeader, Body("html", "none", {}, {}, page))] :
        page \in LoadInfoPages }
    \cup { [kind |-> "response",
            resp |-> Response(200, NoHeader, [BlockedBody EXCEPT !.page = <<>>])],
           [kind |-> "raise", exc |-> "NetworkError"] }

\* USACyclingClient.get_race_categories(info_id, label): fetch_load_info,
\* parse_race_categories, the RaceCategory objects
get_race_categories(info_id, label, rr) ==
    LET c == [NoCall EXCEPT !.op = "fetch_content", !.url = build_load_info_url(info_id, label)]
        f == fetch_content_end(c, rr, "ok")
        extracted == load_info_categories(f.out.value.body.page)
        records == race_categories(extracted, info_id, label)
    IN /\ parse = NoParse      \* one call at a time
       /\ cache' = f.cache
       /\ ParseStep([op |-> "race_categories", race_id |-> info_id, answer |-> rr,
                     fetched |-> f.out,
                     extracted |-> IF f.out.kind = "raise" THEN <<>> ELSE extracted,
                     records |-> IF f.out.kind = "raise" THEN <<>> ELSE records,
                     result |-> IF f.out.kind = "raise"
                                THEN [kind |-> "raise", exc |-> f.out.exc, value |-> None]
                                ELSE [kind |-> "return", exc |-> "",
                                      value |-> race_category_objects(records)]])

InitCategories == InitParse

NextCategories ==
    \/ \E info_id \in LoadInfoIds, rr \in LoadInfoAnswers : get_race_categories(info_id, "", rr)
    \/ parse_returned

SpecCategories == InitCategories /\ [][NextCategories]_vars

(***************************************************************************)
(* utils.cache_result: one decorated function called with one argument     *)
(* list, so one cache file.  The file is absent, a pickled value, a        *)
(* pickled exception, or what a failed dump left behind; mtime is its      *)
(* modification time.  func is what the wrapped function does when it is   *)
(* invoked: it returns, or raises ValueError, or raises ConnectionError    *)
(* (an OSError, as the exceptions of requests are).  mkdir is what          *)
(* get_cache_dir's os.makedirs does.                                       *)
(***************************************************************************)
MaxMemoCalls == 2
MaxMemoTime == 3
ExpireChoices == {1, 2}                         \* expire_seconds
NoMemoFile == [kind |-> "nofile", exc |-> "", mtime |-> 0]
PickledValue(t) == [kind |-> "value", exc |-> "", mtime |-> t]
PickledException(exc, t) == [kind |-> "exception", exc |-> exc, mtime |-> t]
DamagedFile(how, t) == [kind |-> how, exc |-> "", mtime |-> t]   \* "empty" or "garbled"

FuncReturns == [kind |-> "return", exc |-> ""]
FuncRaises(exc) == [kind |-> "raise", exc |-> exc]
FuncOutcomes == {FuncReturns, FuncRaises("ValueError"), FuncRaises("ConnectionError")}
ExceptionLists == {{}, {"ValueError"}, {"OSError"}}      \* exceptions_to_cache
ReadOutcomes == {"ok", "open_fails"}
\* writing the file: done, open() raises OSError, or pickle.dump raises
\* PicklingError after open() truncated the file
PickleWriteOutcomes == {"ok", "open_fails", "dump_fails"}
DamageKinds == {"empty", "garbled"}

\* isinstance(e, exc_type)
is_instance(exc, exc_type) ==
    exc = exc_type \/ (exc_type = "OSError" /\ exc = "ConnectionError")

\* `except (OSError, pickle.PickleError)`
is_cache_error(exc) == exc \in {"OSError", "ConnectionError", "PicklingError", "UnpicklingError"}

\* writing `what` to the cache file at time t: the file afterwards and the
\* exception raised ("" if none)
write_file(file, what, write, damage, t) ==
    CASE write = "ok" -> [file |-> what, exc |-> ""]
      [] write = "open_fails" -> [file |-> file, exc |-> "OSError"]
      [] OTHER -> [file |-> DamagedFile(damage, t), exc |-> "PicklingError"]

\* The body of the outer `try` of wrapper: how it ends (exc = "" for a
\* return), how often func was invoked, and the file it leaves
wrapper_try(m, func, mkdir, read, write, damage) ==
    LET file == m.file
        fresh == file.kind # "nofile" /\ m.t - file.mtime < m.expire_seconds
    IN IF mkdir = "fails"      \* get_cache_dir raises CacheError
       THEN [exc |-> "CacheError", invoked |-> 0, file |-> file]
       ELSE IF fresh
       THEN CASE read = "open_fails" -> [exc |-> "OSError", invoked |-> 0, file |-> file]
              [] file.kind = "value" -> [exc |-> "", invoked |-> 0, file |-> file]
              [] file.kind = "exception" -> [exc |-> file.exc, invoked |-> 0, file |-> file]
              [] file.kind = "empty" -> [exc |-> "EOFError", invoked |-> 0, file |-> file]
              [] OTHER -> [exc |-> "UnpicklingError", invoked |-> 0, file |-> file]
       ELSE IF func.kind = "return"
            THEN LET w == write_file(file, PickledValue(m.t), write, damage, m.t)
                 IN [exc |-> w.exc, invoked |-> 1, file |-> w.file]
            ELSE IF \E exc_type \in m.exceptions_to_cache : is_instance(func.exc, exc_type)
                 THEN LET w == write_file(file, PickledException(func.exc, m.t), write, damage, m.t)
                      IN [exc |-> IF w.exc # "" THEN w.exc ELSE func.exc,
                          invoked |-> 1, file |-> w.file]
                 ELSE [exc |-> func.exc, invoked |-> 1, file |-> file]

\* wrapper after its `try`: an OSError or PickleError that left it is
\* logged and answered with `return func(*args, **kwargs)`
wrapper_end(tried, again) ==
    IF is_cache_error(tried.exc)
    THEN [invoked |-> tried.invoked + 1, file |-> tried.file,
          result |-> IF again.kind = "return" THEN "" ELSE again.exc]
    ELSE [invoked |-> tried.invoked, file |-> tried.file, result |-> tried.exc]

MemoStep(next) ==
    /\ memo' = next
    /\ UNCHANGED <<cfgVars, clockVars, cache, callVars, cacheOpVars, bulk, race, parse, flyer,
                   limiter>>

\* @cache_result(expire_seconds=..., exceptions_to_cache=[...])
cache_result(expire_seconds, exceptions_to_cache) ==
    /\ memo = NoMemo
    /\ MemoStep([op |-> "decorated", expire_seconds |-> expire_seconds,
                 exceptions_to_cache |-> exceptions_to_cache, file |-> NoMemoFile, t |-> 0,
                 calls |-> 0, fresh |-> FALSE, loaded |-> FALSE, before |-> NoMemoFile,
                 invoked |-> 0, result |-> "", dir_ok |-> TRUE])

\* one call of the decorated function; func is what the function does in
\* its first invocation of this call, again in a second one
cache_result_wrapper(func, again, mkdir, read, write, damage) ==
    /\ memo.op # "none"
    /\ memo.calls < MaxMemoCalls
    /\ LET end == wrapper_end(wrapper_try(memo, func, mkdir, read, write, damage), again)
           fresh == memo.file.kind # "nofile" /\ memo.t - memo.file.mtime < memo.expire_seconds
       IN MemoStep([memo EXCEPT !.op = "called", !.calls = @ + 1,
                                !.fresh = fresh,
                                !.loaded = fresh /\ mkdir = "ok" /\ read = "ok"
                                           /\ memo.file.kind \in {"value", "exception"},
                                !.before = memo.file,
                                !.dir_ok = mkdir = "ok",
                                !.file = end.file,
                                !.invoked = end.invoked,
                                !.result = end.result])

\* time passes between two calls
memo_clock(d) ==
    /\ memo.op # "none"
    /\ memo.t + d <= MaxMemoTime
    /\ MemoStep([memo EXCEPT !.op = "later", !.t = @ + d])

InitMemo == InitLimiter

NextMemo ==
    \/ \E e \in ExpireChoices, x \in ExceptionLists : cache_result(e, x)
    \/ \E func \in FuncOutcomes, again \in FuncOutcomes, mkdir \in {"ok", "fails"},
          read \in ReadOutcomes, write \in PickleWriteOutcomes, damage \in DamageKinds :
          cache_result_wrapper(func, again, mkdir, read, write, damage)
    \/ \E d \in {1, 2} : memo_clock(d)

SpecMemo == InitMemo /\ [][NextMemo]_vars

(***************************************************************************)
(* Properties                                                              *)
(***************************************************************************)

\* C1 (SpecRetry): with a transport that fails n times and then succeeds, a
\* call that ended after n failures and one success has returned that
\* response after exactly n + 1 requests; a call that ended having seen
\* failures only has seen max_retries of them and has raised NetworkError.
C1_FailNThenSucceed ==
    (pc = "done" /\ call.op = "fetch_with_retries") =>
        LET n == Len(trace) - 1
            failures(k) == \A i \in 1..k : trace[i] = "fail"
        IN /\ (n >= 0 /\ trace[n + 1] = "ok" /\ failures(n)) =>
                  /\ max_retries > n
                  /\ outcome.kind = "return"
                  /\ outcome.value = [type |-> "response", resp |-> lastResp]
                  /\ requests = n + 1
           /\ failures(Len(trace)) =>
                  /\ Len(trace) = max_retries
                  /\ outcome.kind = "raise" /\ outcome.exc = "NetworkError"

\* C3 (SpecRetry): a call of _fetch_with_retries in which at least one
\* attempt was made and no attempt succeeded has raised NetworkError.
C3_NoSuccessRaisesNetworkError ==
    (/\ pc = "done" /\ call.op = "fetch_with_retries"
     /\ Len(trace) >= 1
     /\ \A i \in 1..Len(trace) : trace[i] # "ok")
        => (outcome.kind = "raise" /\ outcome.exc = "NetworkError")

\* C10 (SpecRetry): after an attempt answered with HTTP 429 the controller
\* has slept (the Retry-After seconds if the header is there, retry_delay * 2
\* if it is not), it is about to make another attempt, and it has handed
\* nothing to its caller.
C10_RateLimitedSleepsThenRetries ==
    (call.op = "fetch_with_retries" /\ lastResp.kind = "resp" /\ lastResp.status = 429) =>
        /\ sleeps # <<>>
        /\ lastResp.retry_after = NoHeader => sleeps[Len(sleeps)] = retry_delay * 2
        /\ isdigit(lastResp.retry_after) => sleeps[Len(sleeps)] = float(lastResp.retry_after)
        /\ pc = "attempting"
        /\ outcome.kind = "pending"

\* C2 (SpecFetch): once a response of a fetch operation carried both block
\* markers, whatever its status code, the operation has ended, with
\* IPBlockedError, and that response was its last request.
C2_BlockedNeverRetried ==
    (call.op \in FetchOps /\ blockedAt > 0) =>
        /\ pc = "done"
        /\ outcome.kind = "raise" /\ outcome.exc = "IPBlockedError"
        /\ requests = blockedAt

\* C8 (SpecFetch): a fetch operation whose retry controller raised
\* NetworkError has raised to its caller.
C8_NetworkErrorSurfaced ==
    (/\ pc = "done" /\ call.op \in FetchOps
     /\ retryResult.kind = "raise" /\ retryResult.exc = "NetworkError")
        => outcome.kind = "raise"

\* C4 (Spec): with caching enabled, a fetch served from the cache made no
\* transport request and no sleep; and a fetch that follows, within the TTL,
\* a fetch of the same key that wrote its entry is served from the cache with
\* the payload of the first, so that the two made the requests of the first
\* alone (one, if the first needed one).
C4_CacheHitShortCircuits ==
    (call.op \in FetchOps /\ cache_enabled) =>
        /\ outcome.hit => (pc = "done" /\ requests = 0 /\ sleeps = <<>>)
        /\ (/\ prev.op # "none" /\ prev.key = KeyOf(call)
            /\ call.at <= prev.at + DefaultExpireSeconds) =>
               /\ pc = "done" /\ outcome.kind = "return" /\ outcome.hit
               /\ outcome.value = prev.value
               /\ requests = 0 /\ sleeps = <<>>
               /\ prev.requests = 1 => prev.requests + requests = 1

\* a second fetch of the same key, made at the last instant of the TTL of
\* the entry the first one wrote with one request, was served from the cache
C4_Witness ==
    /\ call.op \in FetchOps /\ cache_enabled
    /\ prev.op # "none" /\ prev.key = KeyOf(call) /\ prev.requests = 1
    /\ call.at = prev.at + DefaultExpireSeconds
    /\ pc = "done" /\ outcome.hit /\ requests = 0

\* C7 (Spec): a fetch that follows, within the TTL, a fetch of the same URL
\* with the same set of query parameters that wrote its entry, derives the
\* same cache key and is served from the cache, whatever the order of the
\* parameters.
C7_ParamOrderIrrelevant ==
    (/\ call.op \in {"fetch_content", "fetch_json"} /\ prev.op = call.op
     /\ prev.url = call.url
     /\ {prev.params[i] : i \in 1..Len(prev.params)}
            = {call.params[i] : i \in 1..Len(call.params)}
     /\ call.at <= prev.at + DefaultExpireSeconds)
        => (prev.key = KeyOf(call) /\ outcome.hit)

\* C5 (SpecCache): a _get_from_cache(k) that follows a successful
\* _save_to_cache(k, p, t) with no write to k in between yields p when no
\* time has passed, and yields absent when more than t has passed.
C5_PutThenGet ==
    (/\ lastGet.kind = "get" /\ lastPut.kind = "put"
     /\ lastPut.ok /\ lastGet.key = lastPut.key) =>
        /\ lastGet.at = lastPut.at =>
              (lastGet.result.kind = "entry"
               /\ lastGet.result.data.response = lastPut.payload)
        /\ lastGet.at > lastPut.at + lastPut.ttl => lastGet.result = None

\* a put was read back at once, and another one was read after its TTL
C5_Witness ==
    /\ lastGet.kind = "get" /\ lastPut.kind = "put"
    /\ lastPut.ok /\ lastGet.key = lastPut.key
    /\ lastGet.at = lastPut.at /\ lastPut.at > 0
    /\ lastGet.result.kind = "entry"
    /\ lastGet.result.data.response = lastPut.payload

C5_WitnessExpired ==
    /\ lastGet.kind = "get" /\ lastPut.kind = "put"
    /\ lastPut.ok /\ lastGet.key = lastPut.key
    /\ lastGet.at > lastPut.at + lastPut.ttl
    /\ lastGet.result = None

\* C6 (SpecCache): _get_from_cache never raises; it returns an entry only
\* when the time of the call is not past the entry's expires_at, be it an
\* epoch number or an ISO-8601 string; and a file whose expires_at cannot be
\* parsed is reported absent.
C6_ExpiryRespected ==
    lastGet.kind = "get" =>
        /\ lastGet.result.kind \in {"none", "entry"}
        /\ lastGet.result.kind = "entry" =>
              LET e == lastGet.result.data.expires_at
              IN e.enc \in {"num", "str"} /\ e.ok /\ lastGet.at <= e.v
        /\ (lastGet.file.t = "entry" /\ ~lastGet.file.expires_at.ok) =>
              lastGet.result = None

\* an unexpired entry with an ISO-8601 expires_at was returned
C6_Witness ==
    /\ lastGet.kind = "get" /\ lastGet.file.t = "entry"
    /\ lastGet.file.expires_at.enc = "str"
    /\ lastGet.result.kind = "entry"
    /\ lastGet.at > 0

\* C9 (SpecBulk): once an item of a bulk operation met the block page, the
\* operation has ended with IPBlockedError and has issued no request since.
C9_BlockedAbortsBulk ==
    bulk.blockedAt > 0 =>
        /\ bulk.pc = "done" /\ bulk.result = "IPBlockedError"
        /\ bulk.requests = bulk.blockedAt

\* C11 (SpecFetch): what a fetch operation wrote into the cache is the
\* response payload (the text, or the decoded JSON), never a record extracted
\* from it, and what a fetch served from the cache returns is such a payload.
C11_CacheHoldsRawPayload ==
    /\ \A path \in CachePaths :
          cache[path].t = "entry" => cache[path].response.type \in {"text", "json"}
    /\ (call.op \in FetchOps /\ outcome.hit) => outcome.value.type \in {"text", "json"}

\* C12 (SpecFetch): a fetch operation that got a response ends, whatever
\* the file system did to its cache write, returning or raising what it
\* returns or raises when the write works.
C12_WriteFailureSwallowed ==
    (pc = "done" /\ call.op \in FetchOps /\ retryResult.kind = "response") =>
        LET ok == OperationEnd(call, retryResult, "ok").out
        IN /\ outcome.kind = ok.kind
           /\ outcome.exc = ok.exc
           /\ outcome.value = ok.value

\* a page was fetched with caching enabled, the cache write failed, and the
\* page was returned all the same
C12_Witness ==
    /\ pc = "done" /\ call.op = "fetch_content" /\ cache_enabled
    /\ retryResult.kind = "response"
    /\ outcome.kind = "return" /\ ~outcome.stored
    /\ outcome.value = Text(retryResult.resp.body)
    /\ cache[get_cache_path(KeyOf(call))].t # "entry"

\* C13 (SpecRace): with processes putting and getting one key concurrently
\* and a clear from outside, a finished get has reported absent or returned
\* the complete entry of one writer (it has not raised and has not returned
\* a mixture), and once all writers have finished a file that is there holds
\* the complete entry of one of them.
C13_ConcurrentCacheAccess ==
    race.op = "race" =>
        /\ race.rpc = "done" => race.rres.kind \in {"none", "entry"}
        /\ (race.file.exists /\ \A w \in Writers : race.wpc[w] = "closed") =>
              \E w \in Writers : race.file.data = CompleteEntry(w)



\* C14: a results body whose HTML (as received, or unwrapped from a JSON
\* envelope) contains "Unauthorized access!" and which is not a block page
\* parses to a record with the race id, an empty name and no riders, and
\* nothing is raised.
C14_UnauthorizedGivesEmptyResult ==
    (/\ parse.op = "race_results"
     /\ parse.answer.kind = "response"
     /\ UnauthorizedMarker \in parse.answer.resp.body.html_marks
     /\ ~is_blocked(parse.answer.resp.body))
    => /\ parse.result.kind = "return"
       /\ parse.result.value.id = parse.race_id
       /\ parse.result.value.name = ""
       /\ parse.result.value.riders = <<>>
C14_Witness ==
    /\ parse.op = "race_results"
    /\ parse.answer.kind = "response"
    /\ parse.answer.resp.body.env = "message"
    /\ parse.answer.resp.body.html_marks = {UnauthorizedMarker, InvalidMarker}
    /\ parse.answer.resp.body.page = GridPage
    /\ parse.result.kind = "return"
    /\ parse.result.value.riders = <<>>


\* C17 (as stated): the riders come from the semantic table exactly when the
\* div-grid yields no rider row, and from the div-grid otherwise.
C17_SecondaryIffPrimaryEmpty ==
    Extracted =>
        LET page == parse.answer.resp.body.page
            riders == parse.result.value.riders
        IN /\ grid_riders(page) # <<>> => riders = grid_riders(page)
           /\ grid_riders(page) = <<>> => riders = table_riders(page)
\* C17 (amended): the riders come from the semantic table exactly when the
\* page holds no div.tablerow element at all, and from the div-grid otherwise;
\* rows of the two layouts are never merged.
C17_SecondaryIffNoGridRow ==
    Extracted =>
        LET page == parse.answer.resp.body.page
            riders == parse.result.value.riders
        IN /\ page.grid # <<>> => riders = grid_riders(page)
           /\ page.grid = <<>> => riders = table_riders(page)
           /\ \/ \A i \in 1..Len(riders) : DOMAIN riders[i] \subseteq DOMAIN grid_rider(JohnDoeRow)
              \/ \A i \in 1..Len(riders) :
                    DOMAIN riders[i] \subseteq {page.table.headers[h] : h \in 1..Len(page.table.headers)}
C17_Witness ==
    /\ Extracted
    /\ parse.answer.resp.body.page.grid = <<>>
    /\ parse.answer.resp.body.page.table = TableOfTwo
    /\ Len(parse.result.value.riders) = 2
    /\ parse.result.value.riders[2] = [Place |-> "2", Name |-> "Jane Smith"]

\* C18: a div-grid data row of 11 cells yields a rider record with place,
\* name (from the link), city and state split at the comma, time, license,
\* bib, team and the flags is_dnf, is_dns, is_dq.
C18_ElevenCellRowRecord ==
    Extracted =>
        LET page == parse.answer.resp.body.page
            riders == parse.result.value.riders
        IN \A i \in 1..Len(page.grid) :
              (Len(page.grid[i].cells) = 11 /\ page.grid[i].classes \cap {"odd", "even"} # {})
              => \E j \in 1..Len(riders) : is_record_of(riders[j], page.grid[i])


C16_AllFieldsWithDefaults ==
    (parse.op = "event_details" /\ parse.fetched.kind = "return") =>
        LET lines == parse.answer.resp.body.page.header
            v == parse.result.value
        IN /\ parse.result.kind = "return"
           /\ {"id", "permit_id", "year", "name", "location", "state", "start_date", "end_date",
               "disciplines", "categories", "is_usac_sanctioned", "promoter", "promoter_email",
               "website", "registration_url", "description"} \subseteq DOMAIN v
           /\ (Len(lines) = 0 \/ lines[1] = "") => v.name = default_name(parse.race_id)
           /\ (Len(lines) < 2 \/ lines[2] = "") => v.location = "Unknown"


C20_RateLimiterWindow ==
    limiter.op # "none" =>
        /\ \A t \in 0..MaxLimiterTime :
              Cardinality({ i \in 1..Len(limiter.granted) :
                              limiter.granted[i] >= t /\ limiter.granted[i] <= t + limiter.period })
                  <= limiter.max_calls
        /\ (limiter.op = "acquired" /\ ~limiter.full_at_call) =>
              limiter.result = 0 /\ limiter.slept = 0
        /\ (limiter.op = "acquired" /\ limiter.full_at_call) =>
              limiter.result > 0 /\ limiter.slept > 0
C20_Witness ==
    /\ limiter.op = "acquired"
    /\ limiter.max_calls = 2
    /\ limiter.full_at_call
    /\ limiter.slept >= 2
    /\ limiter.result > limiter.period
    /\ Len(limiter.granted) = 3

\* C21: a function wrapped by rate_limit_decorator is invoked at most
\* max_calls times within any window of length period (taken half-open,
\* [t, t + period)), whatever backoff_factor, max_backoff and jitter are;
\* each call is executed, the calls that find room without waiting and the
\* others after a sleep.
C21_DecoratorWindow ==
    limiter.op \in {"called", "later"} =>
        /\ \A t \in 0..MaxLimiterTime :
              Cardinality({ i \in 1..Len(limiter.invoked) :
                              limiter.invoked[i] >= t /\ limiter.invoked[i] < t + limiter.period })
                  <= limiter.max_calls
        /\ (limiter.op = "called" /\ Len(limiter.invoked) <= limiter.max_calls) =>
              limiter.slept = 0

\* C22 (SpecRetry): the retry controller is the stated machine.  A call
\* starts in ATTEMPTING(0); a success in ATTEMPTING(n) leads to DONE; a
\* transport failure in ATTEMPTING(n) that is not the last allowed attempt
\* leads to one sleep of retry_delay * 2^n and then to ATTEMPTING(n + 1); a
\* failure in the last allowed attempt leads to FAILED without a sleep;
\* after DONE or FAILED there is no request and no sleep.
C22_RetryStateMachine ==
    [][ /\ (pc = "idle" /\ call'.op = "fetch_with_retries") =>
              (pc' = "attempting" /\ attempt' = 0 /\ requests' = 0 /\ sleeps' = <<>>)
        /\ (pc = "attempting" /\ call.op = "fetch_with_retries" /\ requests' = requests + 1) =>
              LET answer == trace'[Len(trace')] IN
              /\ answer = "ok" =>
                    /\ pc' = "done" /\ outcome'.kind = "return"
                    /\ outcome'.value = [type |-> "response", resp |-> lastResp']
                    /\ sleeps' = sleeps
              /\ (answer = "fail" /\ attempt < max_retries - 1) =>
                    /\ sleeps' = Append(sleeps, retry_delay * Pow2(attempt))
                    /\ pc' = "attempting" /\ attempt' = attempt + 1
              /\ (answer = "fail" /\ attempt >= max_retries - 1) =>
                    /\ pc' = "done" /\ outcome'.kind = "raise" /\ outcome'.exc = "NetworkError"
                    /\ sleeps' = sleeps
        /\ (pc = "done" /\ call.op = "fetch_with_retries") =>
              (requests' = requests /\ sleeps' = sleeps)
      ]_vars

\* C23 (SpecCache): a read of the response cache never changes the store.
\* A call of _get_from_cache, whether the entry is missing, valid, expired
\* or unreadable, leaves every cache file as it was; the store changes only
\* in a step that is a _save_to_cache or an out-of-band change of the
\* directory.
C23_ReadLeavesStore ==
    [][ /\ (cacheOps' # cacheOps /\ lastGet'.kind = "get") => cache' = cache
        /\ cache' # cache => (cacheOps' # cacheOps /\ lastGet' = None)
      ]_vars
\* an expired entry was read, reported absent, and its file is still there
C23_Witness ==
    /\ cache_enabled
    /\ lastGet.kind = "get" /\ lastGet.file.t = "entry"
    /\ lastGet.file.expires_at.enc = "num" /\ lastGet.at > lastGet.file.expires_at.v
    /\ lastGet.result = None
    /\ cache[get_cache_path(lastGet.key)] = lastGet.file

\* C24 (SpecRiders): _extract_riders never raises for structural absence.
\* Whatever number of cells each data row has, the call returns, and each
\* data row is either skipped or gives one record.
C24_ExtractRidersNeverRaises ==
    parse.op = "extract_riders" =>
        /\ parse.result.kind = "return"
        /\ Len(parse.result.value) <= Len(SelectSeq(parse.grid, is_odd_or_even))

\* C25 (SpecCategories): for every category fetch_load_info extracts,
\* parse_race_categories returns a record carrying the race id under the
\* key `id` with name, info_id and label, and get_race_categories returns
\* exactly one RaceCategory with that id per extracted category.
C25_OneCategoryPerItem ==
    (parse.op = "race_categories" /\ parse.result.kind = "return") =>
        /\ Len(parse.records) = Len(parse.extracted)
        /\ \A i \in 1..Len(parse.extracted) :
              /\ {"id", "name", "info_id", "label"} \subseteq DOMAIN parse.records[i]
              /\ parse.records[i].id = parse.extracted[i].id
        /\ Len(parse.result.value) = Len(parse.extracted)
        /\ \A i \in 1..Len(parse.extracted) :
              parse.result.value[i].id = parse.extracted[i].id

\* C26 (SpecRetryFair): whatever max_retries >= 0 is and whatever the
\* attempts are answered with, HTTP 429 included, one call of
\* _fetch_with_retries makes at most max_retries requests and at most
\* max_retries sleeps, and a call that has started ends.
C26_BoundedRetries ==
    /\ [](call.op = "fetch_with_retries" =>
             (requests <= max_retries /\ Len(sleeps) <= max_retries))
    /\ ((call.op = "fetch_with_retries" /\ pc = "attempting") ~> (pc = "done"))
\* a call that used all its attempts on 429 answers and slept after each
C26_Witness ==
    /\ call.op = "fetch_with_retries" /\ pc = "done"
    /\ max_retries = MaxRetriesBound
    /\ requests = max_retries /\ Len(sleeps) = max_retries
    /\ \A i \in 1..Len(trace) : trace[i] = "r429"

\* C27 (SpecFlyer): once fetch_flyer(p) has returned success and the stored
\* flyer has not been removed (the storage holds a completely written flyer
\* of p), a call of fetch_flyer(p) returns status exists and makes no
\* transport request.
C27_FetchedFlyerIsFound ==
    [][ (/\ flyer'.calls = flyer.calls + 1
         /\ \E f \in flyer.storage : f.permit = flyer'.permit /\ f.complete)
        => (flyer'.result = [status |-> "exists", permit |-> flyer'.permit]
            /\ flyer'.requests = 0 /\ flyer'.storage = flyer.storage)
      ]_vars

\* C28 (SpecFlyer): fetch_flyer(p) answers exists only if a flyer saved for
\* p itself is in storage; the stored flyer of another permit q never makes
\* fetch_flyer(p) answer exists.
C28_ExistsOnlyForOwnPermit ==
    (flyer.op = "fetch_flyer" /\ flyer.result.status = "exists") =>
        \E f \in flyer.storage : f.permit = flyer.permit

\* C29 (SpecParse): with cache_enabled = False no operation of the parser
\* reads or writes a response cache: the cache store stays as it was (here:
\* empty), the category lookups of EventDetailsParser.parse included.
C29_DisabledCacheUntouched ==
    ~cache_enabled => \A p \in CachePaths : cache[p] = NoFile

\* C30 (SpecMemo): one call of a function wrapped by cache_result invokes
\* the function at most once: not at all when an unexpired cache file was
\* loaded (its value returned or its exception raised again), exactly once
\* on a miss or an expired file, whatever the function does and whether or
\* not the cache file can be read or written.
C30_InvokedAtMostOnce ==
    memo.op = "called" =>
        /\ memo.invoked <= 1
        /\ memo.loaded => memo.invoked = 0
        /\ (memo.dir_ok /\ ~memo.fresh) => memo.invoked = 1

====
